---- MODULE Spec2Model ----
(***************************************************************************)
(* Model of the core of perflock: the contract validator                   *)
(* (packages/core/src/contracts/validator.ts), the contract resolver and   *)
(* its cache (packages/core/src/contracts/loader.ts), and the measurement  *)
(* of interactions (packages/core/src/measurement/interaction.ts, with the *)
(* profiler of measurement/profiler.ts and measureRendersWithProfiler).    *)
(* Three specifications: Spec calls one exported function of the contracts *)
(* modules, MeasureSpec is a call of measureInteraction, ProfilerSpec is a *)
(* profiler used directly or by measureRendersWithProfiler.                *)
(*                                                                         *)
(* JavaScript numbers are modelled as exact rationals extended with        *)
(* Infinity, -Infinity and NaN; `undefined` is a value of its own.         *)
(* Arithmetic and comparisons follow the ECMAScript rules for these        *)
(* values (x/0, Infinity/Infinity, comparisons with NaN, ...); binary      *)
(* floating-point rounding and the sign of zero are not modelled.          *)
(***************************************************************************)
EXTENDS Integers, Sequences, FiniteSets, TLC

VARIABLES
  call,           \* the exported function this behaviour invokes
  pc,             \* "call" before the invocation, "done" after it returned
  componentName,  \* validateAgainstContract: 1st argument
  measurements,   \* validateAgainstContract: 2nd argument
  contract,       \* validateAgainstContract: 3rd argument
  result,         \* validateAgainstContract: returned ValidationResult
  results,        \* getOverallStatus: argument (ValidationResult[])
  overall,        \* getOverallStatus: returned status
  config,         \* validateConfig / resolveConfig: argument (ContractConfig)
  errors,         \* validateConfig: returned list of messages
  resolved,       \* resolveConfig: returned ResolvedConfig
  cachedConfig,      \* loader.ts: the module's cached ResolvedConfig, or null
  cachedConfigPath,  \* loader.ts: the path of the cached file, or null
  loaded,            \* getConfig: what loadConfig found at the last call
  returned,          \* getConfig: what the last call returned or threw
  calls,             \* getConfig: number of calls made so far
  loading,           \* getConfig: calls suspended at `await loadConfig`
  element,             \* measureInteraction: 1st argument
  options,             \* measureInteraction: 2nd argument
  run,                 \* measureInteraction: the loop variable run
  index,               \* position in options.interactions (from 1)
  chars,               \* performInteraction: characters of the text typed
  profiler,            \* the metrics of the run's profiler
  tracker,             \* the run's InteractionTracker
  interactionResults,  \* the run's interactionResults
  allResults,          \* measureInteraction: allResults
  settled,             \* what measureInteraction's promise settled with
  fired,               \* the calls made of fireEvent, in order
  elementValue,        \* the value of each element of the document
  commitLog,           \* where each commit of the run fell (see Window)
  mounted,             \* number of mounted trees
  commits,             \* commits React made after the mounts
  now,                 \* the clock Date.now() reads
  yields,              \* awaits of performInteraction since its first snapshot
  heap,                \* the objects and the arrays the profiler allocated
  live,                \* address of the profiler's metrics object (0: none)
  taken,               \* the snapshots getSnapshot returned, by address
  allRuns,             \* measureRendersWithProfiler: allRuns, by address
  runLog,              \* the events recorded, split at each reset
  runOptions,          \* measureRendersWithProfiler: 3rd argument
  scenario,            \* measureRendersWithProfiler: a scenario was given
  iteration            \* measureRendersWithProfiler: the loop variable i

\* the arguments and results of the pure functions
callVars == <<componentName, measurements, contract, result,
              results, overall, config, errors, resolved>>

\* the configuration cache and the calls of getConfig
cacheVars == <<cachedConfig, cachedConfigPath, loaded, returned, calls,
               loading>>

\* the arguments of measureInteraction
arguments == <<element, options>>

\* the state of a call of measureInteraction
measureVars == <<arguments, run, index, chars, profiler, tracker,
                 interactionResults, allResults, settled, fired, elementValue,
                 commitLog, mounted, commits, now, yields>>

\* the state of a profiler and of a call of measureRendersWithProfiler
profilerVars == <<heap, live, taken, allRuns, runLog, runOptions, scenario,
                  iteration>>

vars == <<call, pc, callVars, cacheVars, measureVars, profilerVars>>

(***************************************************************************)
(* JavaScript numbers                                                      *)
(***************************************************************************)
Abs(i) == IF i < 0 THEN -i ELSE i

Sign(i) == IF i < 0 THEN -1 ELSE IF i > 0 THEN 1 ELSE 0

RECURSIVE Gcd(_, _)
Gcd(a, b) == IF b = 0 THEN a ELSE Gcd(b, a % b)

\* the finite number n/d (d > 0), in lowest terms
Rat(n, d) ==
  LET g == Gcd(Abs(n), d)
  IN [k |-> "fin", n |-> n \div g, d |-> d \div g]

Num(n) == Rat(n, 1)

Infinity == [k |-> "inf", n |-> 1, d |-> 0]

NegInfinity == [k |-> "ninf", n |-> -1, d |-> 0]

NaN == [k |-> "nan", n |-> 0, d |-> 0]

Undefined == [k |-> "undefined", n |-> 0, d |-> 0]

IsFinite(x) == x.k = "fin"

IsInfinite(x) == x.k \in {"inf", "ninf"}

\* Number.isInteger
IsInteger(x) == x.k = "fin" /\ x.d = 1

\* x < y  (false whenever an operand is NaN or undefined)
Lt(x, y) ==
  /\ x.k \in {"fin", "inf", "ninf"}
  /\ y.k \in {"fin", "inf", "ninf"}
  /\ \/ x.k = "ninf" /\ y.k # "ninf"
     \/ y.k = "inf" /\ x.k # "inf"
     \/ x.k = "fin" /\ y.k = "fin" /\ x.n * y.d < y.n * x.d

Gt(x, y) == Lt(y, x)

\* x <= y  (false whenever an operand is NaN or undefined)
Le(x, y) ==
  /\ x.k \in {"fin", "inf", "ninf"}
  /\ y.k \in {"fin", "inf", "ninf"}
  /\ ~Lt(y, x)

\* x === y on numbers and undefined: NaN equals nothing
StrictEq(x, y) == x.k # "nan" /\ y.k # "nan" /\ x = y

\* x - y
Sub(x, y) ==
  IF x.k \notin {"fin", "inf", "ninf"} \/ y.k \notin {"fin", "inf", "ninf"}
  THEN NaN
  ELSE IF x.k = "fin" /\ y.k = "fin"
  THEN Rat(x.n * y.d - y.n * x.d, x.d * y.d)
  ELSE IF x.k = "fin" THEN (IF y.k = "inf" THEN NegInfinity ELSE Infinity)
  ELSE IF y.k = "fin" THEN x
  ELSE IF x.k = y.k THEN NaN
  ELSE x

\* x + y
Add(x, y) ==
  IF x.k \notin {"fin", "inf", "ninf"} \/ y.k \notin {"fin", "inf", "ninf"}
  THEN NaN
  ELSE IF x.k = "fin" /\ y.k = "fin"
  THEN Rat(x.n * y.d + y.n * x.d, x.d * y.d)
  ELSE IF x.k = "fin" THEN y
  ELSE IF y.k = "fin" THEN x
  ELSE IF x.k = y.k THEN x
  ELSE NaN

\* Math.round(x): the nearest integer, halves going up
Round(x) ==
  IF x.k = "fin" THEN Num((2 * x.n + x.d) \div (2 * x.d)) ELSE x

\* x / y
Div(x, y) ==
  IF x.k \notin {"fin", "inf", "ninf"} \/ y.k \notin {"fin", "inf", "ninf"}
  THEN NaN
  ELSE IF x.k = "fin" /\ y.k = "fin"
  THEN IF y.n = 0
       THEN (IF x.n = 0 THEN NaN
             ELSE IF x.n > 0 THEN Infinity ELSE NegInfinity)
       ELSE Rat(x.n * y.d * Sign(y.n), x.d * Abs(y.n))
  ELSE IF x.k = "fin" THEN Num(0)
  ELSE IF y.k # "fin" THEN NaN
  ELSE IF (x.k = "inf") = (y.n >= 0) THEN Infinity ELSE NegInfinity

\* x || 0 : undefined, NaN and 0 are falsy
OrZero(x) ==
  IF x.k \in {"undefined", "nan"} \/ (x.k = "fin" /\ x.n = 0) THEN Num(0) ELSE x

\* x ?? y
Coalesce(x, y) == IF x = Undefined THEN y ELSE x

\* obj[key], undefined when the object has no such key
Get(obj, key) == IF key \in DOMAIN obj THEN obj[key] ELSE Undefined

\* the elements of the sequence s that belong to keys, in the order of s
RECURSIVE SelectKeys(_, _)
SelectKeys(s, keys) ==
  IF s = <<>> THEN <<>>
  ELSE IF Head(s) \in keys THEN <<Head(s)>> \o SelectKeys(Tail(s), keys)
  ELSE SelectKeys(Tail(s), keys)

(***************************************************************************)
(* contracts/validator.ts                                                  *)
(***************************************************************************)
\* variant: a metric exactly at its budget already fails
getStatusFromUtilization_atBudget(utilization, warningThreshold) ==
  IF Le(Num(1), utilization) THEN "fail"
  ELSE IF Gt(utilization, warningThreshold) THEN "warn"
  ELSE "pass"

getStatusFromUtilization(utilization, warningThreshold) ==
  IF Gt(utilization, Num(1)) THEN "fail"
  ELSE IF Gt(utilization, warningThreshold) THEN "warn"
  ELSE "pass"

validateMetric(actual, budget, warningThreshold) ==
  LET utilization == Div(actual, budget)
      status == getStatusFromUtilization(utilization, warningThreshold)
      exceededBy == IF Gt(utilization, Num(1))
                    THEN Div(Sub(actual, budget), budget)
                    ELSE Undefined
  IN [actual |-> actual, budget |-> budget, utilization |-> utilization,
      status |-> status, exceededBy |-> exceededBy]

\* variant: the boundaries belong to the lower interval
getViolationSeverity_closed(exceededByPercent) ==
  IF Le(exceededByPercent, Rat(1, 4)) THEN "minor"
  ELSE IF Le(exceededByPercent, Rat(1, 2)) THEN "moderate"
  ELSE "severe"

getViolationSeverity(exceededByPercent) ==
  IF Lt(exceededByPercent, Rat(1, 4)) THEN "minor"
  ELSE IF Lt(exceededByPercent, Rat(1, 2)) THEN "moderate"
  ELSE "severe"

createViolation(metric, budget, actual) ==
  LET exceededByPercent == Div(Sub(actual, budget), budget)
  IN [metric |-> metric, budget |-> budget, actual |-> actual,
      exceededByPercent |-> exceededByPercent,
      severity |-> getViolationSeverity(exceededByPercent)]

\* statuses.includes(s)
Includes(statuses, s) == \E i \in 1..Len(statuses) : statuses[i] = s

\* variant: warn is looked for before fail
combineStatuses_warnFirst(statuses) ==
  IF Includes(statuses, "warn") THEN "warn"
  ELSE IF Includes(statuses, "fail") THEN "fail"
  ELSE "pass"

combineStatuses(statuses) ==
  IF Includes(statuses, "fail") THEN "fail"
  ELSE IF Includes(statuses, "warn") THEN "warn"
  ELSE "pass"

\* InteractionType; Object.entries visits the declared kinds in this order
\* (the insertion order of a contract's keys is not modelled)
InteractionTypes == <<"click", "type", "scroll", "hover", "focus", "blur">>

\* `rendersPerInteraction.${type}`
InteractionMetric(type) ==
  [click |-> "rendersPerInteraction.click",
   type |-> "rendersPerInteraction.type",
   scroll |-> "rendersPerInteraction.scroll",
   hover |-> "rendersPerInteraction.hover",
   focus |-> "rendersPerInteraction.focus",
   blur |-> "rendersPerInteraction.blur"][type]

\* variant: a violation is recorded for every metric that does not pass
violationsFor_notPass(validation, metric) ==
  IF validation.status # "pass"
  THEN <<createViolation(metric, validation.budget, validation.actual)>>
  ELSE <<>>

\* validator.ts:136-140: a violation is recorded for a failed metric only
violationsFor(validation, metric) ==
  IF validation.status = "fail"
  THEN <<createViolation(metric, validation.budget, validation.actual)>>
  ELSE <<>>

\* validator.ts:174: the budgets of a declared kind that are checked
hasMaxRenders(budget) == ~StrictEq(budget.maxRenders, Undefined)

\* variant: a kind that never occurred has no actual value
actualRenders_noDefault(rendersByType, type) == Get(rendersByType, type)

\* validator.ts:172: rendersByType[type] || 0
actualRenders(rendersByType, type) == OrZero(Get(rendersByType, type))

\* the body of the loop over Object.entries(contract.interactions), folded
\* over the declared kinds; acc carries interactionValidations, statuses and
\* violations
RECURSIVE interactionLoop(_, _, _, _, _)
interactionLoop(types, rendersByType, interactions, warningThreshold, acc) ==
  IF types = <<>> THEN acc
  ELSE
    LET type == Head(types)
        budget == interactions[type]
        actual == actualRenders(rendersByType, type)
        validation == validateMetric(actual, budget.maxRenders,
                                     warningThreshold)
        next ==
          IF hasMaxRenders(budget)
          THEN [validations |-> (type :> validation) @@ acc.validations,
                statuses |-> Append(acc.statuses, validation.status),
                violations |-> acc.violations \o
                     violationsFor(validation, InteractionMetric(type))]
          ELSE acc
    IN interactionLoop(Tail(types), rendersByType, interactions,
                       warningThreshold, next)

\* validator.ts:126, 144: a budget of Infinity switches the check off
isChecked(budget) == ~StrictEq(budget, Infinity)

\* validator.ts:115-117: no status, no violation and no metric yet
emptyResult == [metrics |-> <<>>, statuses |-> <<>>, violations |-> <<>>]

\* validator.ts:133-140, 151-158: one validated metric is recorded
record(acc, metric, validation) ==
  [metrics |-> (metric :> validation) @@ acc.metrics,
   statuses |-> Append(acc.statuses, validation.status),
   violations |-> acc.violations \o violationsFor(validation, metric)]

\* validator.ts:125-141: render time
checkRenderTime(acc, renderMetrics, c) ==
  IF isChecked(c.maxRenderTime)
  THEN record(acc, "renderTime",
              validateMetric(renderMetrics.averageRenderTime, c.maxRenderTime,
                             c.warningThreshold))
  ELSE acc

\* validator.ts:143-159: render count
checkRenderCount(acc, renderMetrics, c) ==
  IF isChecked(c.maxRenderCount)
  THEN record(acc, "renderCount",
              validateMetric(renderMetrics.renderCount, c.maxRenderCount,
                             c.warningThreshold))
  ELSE acc

\* validator.ts:195-197: the validated kinds, when there is one, are a metric
withInteractionValidations(acc, loop) ==
  [metrics |-> IF DOMAIN loop.validations # {}
               THEN ("rendersPerInteraction" :> loop.validations) @@ acc.metrics
               ELSE acc.metrics,
   statuses |-> loop.statuses,
   violations |-> loop.violations]

\* variant: the budgets are checked for any measurement, one without
\* rendersByType counting as one with no renders
checkInteractions_anyMeasurement(acc, measurement, c) ==
  withInteractionValidations(acc,
    interactionLoop(SelectKeys(InteractionTypes, DOMAIN c.interactions),
                    IF "rendersByType" \in DOMAIN measurement
                    THEN measurement.rendersByType ELSE <<>>,
                    c.interactions, c.warningThreshold,
                    [validations |-> <<>>, statuses |-> acc.statuses,
                     violations |-> acc.violations]))

\* validator.ts:161-198: per-interaction budgets, for an interaction result
checkInteractions(acc, measurement, c) ==
  IF "interactionResults" \in DOMAIN measurement
  THEN withInteractionValidations(acc,
         interactionLoop(SelectKeys(InteractionTypes, DOMAIN c.interactions),
                         measurement.rendersByType, c.interactions,
                         c.warningThreshold,
                         [validations |-> <<>>, statuses |-> acc.statuses,
                          violations |-> acc.violations]))
  ELSE acc

\* validator.ts:202-210
validationResult(name, acc) ==
  [status |-> IF Len(acc.statuses) > 0
              THEN combineStatuses(acc.statuses) ELSE "pass",
   componentName |-> name, metrics |-> acc.metrics,
   violations |-> acc.violations, suggestions |-> <<>>]

\* validator.ts:122-123: the metrics of either kind of measurement
renderMetricsOf(measurement) ==
  IF "metrics" \in DOMAIN measurement THEN measurement.metrics ELSE measurement

validateAgainstContract(name, measurement, c) ==
  validationResult(name,
    checkInteractions(
      checkRenderCount(
        checkRenderTime(emptyResult, renderMetricsOf(measurement), c),
        renderMetricsOf(measurement), c),
      measurement, c))

\* results.map((r) => r.status)
MapStatus(rs) == [i \in 1..Len(rs) |-> rs[i].status]

getOverallStatus(rs) == combineStatuses(MapStatus(rs))

(***************************************************************************)
(* contracts/loader.ts                                                     *)
(* An optional numeric field that is unset holds Undefined; an optional    *)
(* object-valued field (global, components, aggregates, interactions,      *)
(* meta, an aggregate's components) that is unset is absent from the       *)
(* record.  The string-valued and nested options of the global config      *)
(* (outputDir, artifactName, bundleStats, diagnostics) are left out.       *)
(***************************************************************************)
DEFAULT_GLOBAL_CONFIG ==
  [runs |-> Num(10), warmupRuns |-> Num(1), historyWindow |-> Num(20),
   regressionThreshold |-> Rat(15, 100)]

DEFAULT_COMPONENT_CONTRACT == [warningThreshold |-> Rat(8, 10)]

\* Object.entries visits the configured names in this order
ConfigNames == <<"X", "Y", "G">>

\* x || y
OrElse(x, y) ==
  IF x.k \in {"undefined", "nan"} \/ (x.k = "fin" /\ x.n = 0) THEN y ELSE x

\* variant: the defaults are applied with || instead of ??
resolveComponentContract_or(c) ==
  [maxRenderTime |-> OrElse(c.maxRenderTime, Infinity),
   maxRenderCount |-> OrElse(c.maxRenderCount, Infinity),
   maxMemoryDelta |-> OrElse(c.maxMemoryDelta, Infinity),
   warningThreshold |-> OrElse(c.warningThreshold,
                               DEFAULT_COMPONENT_CONTRACT.warningThreshold),
   interactions |-> IF "interactions" \in DOMAIN c THEN c.interactions ELSE <<>>,
   meta |-> IF "meta" \in DOMAIN c THEN c.meta ELSE <<>>]

resolveComponentContract(c) ==
  [maxRenderTime |-> Coalesce(c.maxRenderTime, Infinity),
   maxRenderCount |-> Coalesce(c.maxRenderCount, Infinity),
   maxMemoryDelta |-> Coalesce(c.maxMemoryDelta, Infinity),
   warningThreshold |-> Coalesce(c.warningThreshold,
                                 DEFAULT_COMPONENT_CONTRACT.warningThreshold),
   interactions |-> IF "interactions" \in DOMAIN c THEN c.interactions ELSE <<>>,
   meta |-> IF "meta" \in DOMAIN c THEN c.meta ELSE <<>>]

resolveGlobalConfig(cfg) ==
  LET g == IF "global" \in DOMAIN cfg THEN cfg.global ELSE <<>>
  IN [runs |-> Coalesce(Get(g, "runs"), DEFAULT_GLOBAL_CONFIG.runs),
      warmupRuns |-> Coalesce(Get(g, "warmupRuns"),
                              DEFAULT_GLOBAL_CONFIG.warmupRuns),
      historyWindow |-> Coalesce(Get(g, "historyWindow"),
                                 DEFAULT_GLOBAL_CONFIG.historyWindow),
      regressionThreshold |-> Coalesce(Get(g, "regressionThreshold"),
                                 DEFAULT_GLOBAL_CONFIG.regressionThreshold)]

resolveConfig(cfg) ==
  [global |-> resolveGlobalConfig(cfg),
   components |->
     IF "components" \in DOMAIN cfg
     THEN [name \in DOMAIN cfg.components |->
             resolveComponentContract(cfg.components[name])]
     ELSE <<>>,
   aggregates |->
     IF "aggregates" \in DOMAIN cfg THEN cfg.aggregates ELSE <<>>]

\* errors.push(message) when the rule is broken
pushIf(broken, message) == IF broken THEN <<message>> ELSE <<>>

\* loader.ts:355-377
globalErrors(cfg) ==
  IF "global" \notin DOMAIN cfg THEN <<>>
  ELSE
    LET g == cfg.global
    IN pushIf(~StrictEq(g.runs, Undefined)
                /\ (Lt(g.runs, Num(1)) \/ ~IsInteger(g.runs)),
              <<"global", "runs must be a positive integer">>)
       \o
       pushIf(~StrictEq(g.regressionThreshold, Undefined)
                /\ (Lt(g.regressionThreshold, Num(0))
                    \/ Gt(g.regressionThreshold, Num(1))),
              <<"global", "regressionThreshold must be between 0 and 1">>)
       \o
       pushIf(~StrictEq(g.historyWindow, Undefined)
                /\ (Lt(g.historyWindow, Num(1)) \/ ~IsInteger(g.historyWindow)),
              <<"global", "historyWindow must be a positive integer">>)

\* loader.ts:404-414
RECURSIVE interactionErrors(_, _, _)
interactionErrors(name, types, interactions) ==
  IF types = <<>> THEN <<>>
  ELSE
    LET budget == interactions[Head(types)]
    IN pushIf(~StrictEq(budget.maxRenders, Undefined)
                /\ Le(budget.maxRenders, Num(0)),
              <<name, "interactions", Head(types), "maxRenders must be positive">>)
       \o interactionErrors(name, Tail(types), interactions)

\* loader.ts:382-414, the body of the loop over the components
componentErrors(name, c) ==
  pushIf(~StrictEq(c.maxRenderTime, Undefined) /\ Le(c.maxRenderTime, Num(0)),
         <<name, "maxRenderTime must be positive">>)
  \o
  pushIf(~StrictEq(c.maxRenderCount, Undefined)
           /\ (Le(c.maxRenderCount, Num(0)) \/ ~IsInteger(c.maxRenderCount)),
         <<name, "maxRenderCount must be a positive integer">>)
  \o
  pushIf(~StrictEq(c.warningThreshold, Undefined)
           /\ (Lt(c.warningThreshold, Num(0)) \/ Gt(c.warningThreshold, Num(1))),
         <<name, "warningThreshold must be between 0 and 1">>)
  \o
  (IF "interactions" \in DOMAIN c
   THEN interactionErrors(name,
          SelectKeys(InteractionTypes, DOMAIN c.interactions), c.interactions)
   ELSE <<>>)

\* loader.ts:380-416
RECURSIVE componentsErrors(_, _)
componentsErrors(names, components) ==
  IF names = <<>> THEN <<>>
  ELSE componentErrors(Head(names), components[Head(names)])
       \o componentsErrors(Tail(names), components)

\* loader.ts:419-425
RECURSIVE aggregatesErrors(_, _)
aggregatesErrors(names, aggregates) ==
  IF names = <<>> THEN <<>>
  ELSE
    LET aggregate == aggregates[Head(names)]
    IN pushIf("components" \notin DOMAIN aggregate
                \/ Len(aggregate.components) = 0,
              <<Head(names), "components must be a non-empty array">>)
       \o aggregatesErrors(Tail(names), aggregates)

\* variant: validation stops at the first section that has an error
validateConfig_failFast(cfg) ==
  IF globalErrors(cfg) # <<>> THEN globalErrors(cfg)
  ELSE IF "components" \in DOMAIN cfg
          /\ componentsErrors(SelectKeys(ConfigNames, DOMAIN cfg.components),
                              cfg.components) # <<>>
  THEN componentsErrors(SelectKeys(ConfigNames, DOMAIN cfg.components),
                        cfg.components)
  ELSE IF "aggregates" \in DOMAIN cfg
  THEN aggregatesErrors(SelectKeys(ConfigNames, DOMAIN cfg.aggregates),
                        cfg.aggregates)
  ELSE <<>>

validateConfig(cfg) ==
  globalErrors(cfg)
  \o
  (IF "components" \in DOMAIN cfg
   THEN componentsErrors(SelectKeys(ConfigNames, DOMAIN cfg.components),
                         cfg.components)
   ELSE <<>>)
  \o
  (IF "aggregates" \in DOMAIN cfg
   THEN aggregatesErrors(SelectKeys(ConfigNames, DOMAIN cfg.aggregates),
                         cfg.aggregates)
   ELSE <<>>)

(***************************************************************************)
(* measurement/profiler.ts                                                 *)
(***************************************************************************)
\* the metrics of a profiler that has recorded nothing
createProfiler(name) ==
  [componentName |-> name,
   renderCount |-> Num(0),
   totalActualDuration |-> Num(0),
   totalBaseDuration |-> Num(0),
   averageRenderTime |-> Num(0),
   renders |-> <<>>]

\* RenderEvent, without its two clock readings (startTime, commitTime)
renderEvent(phase, actualDuration, baseDuration) ==
  [phase |-> phase,
   actualDuration |-> actualDuration,
   baseDuration |-> baseDuration]

\* onRenderCallback that leaves the average as it was
onRenderCallback_staleAverage(metrics, event) ==
  [metrics EXCEPT
     !.renderCount = Add(@, Num(1)),
     !.totalActualDuration = Add(@, event.actualDuration),
     !.totalBaseDuration = Add(@, event.baseDuration),
     !.renders = Append(@, event)]

\* React reports one commit to the profiler
onRenderCallback(metrics, event) ==
  [metrics EXCEPT
     !.renderCount = Add(@, Num(1)),
     !.totalActualDuration = Add(@, event.actualDuration),
     !.totalBaseDuration = Add(@, event.baseDuration),
     !.renders = Append(@, event),
     !.averageRenderTime =
        Div(Add(metrics.totalActualDuration, event.actualDuration),
            Add(metrics.renderCount, Num(1)))]

\* a copy of the metrics, with a copy of the list of events
getSnapshot(metrics) == metrics

\* reset with the list of events left as it was
reset_keepsEvents(metrics) ==
  [metrics EXCEPT
     !.renderCount = Num(0),
     !.totalActualDuration = Num(0),
     !.totalBaseDuration = Num(0),
     !.averageRenderTime = Num(0)]

\* reset: the counters return to zero and the list of events is emptied
reset(metrics) ==
  [metrics EXCEPT
     !.renderCount = Num(0),
     !.totalActualDuration = Num(0),
     !.totalBaseDuration = Num(0),
     !.averageRenderTime = Num(0),
     !.renders = <<>>]

\* The profiler's metrics are one object that onRenderCallback and reset
\* write in place, and its renders field refers to an array. The heap
\* holds the objects and the arrays; an address is a position in it.
EmptyHeap == [objects |-> <<>>, arrays |-> <<>>]

\* the RenderMetrics found at an address: the fields of the object, with
\* the events of the array its renders field refers to
metricsAt(h, address) ==
  [h.objects[address] EXCEPT !.renders = h.arrays[@]]

\* `const metrics = {componentName, ..., renders: []}`: a new object that
\* refers to a new array (the object is at address Len(h.objects) + 1)
createProfilerAt(h, name) ==
  [objects |-> Append(h.objects,
                      [createProfiler(name) EXCEPT
                         !.renders = Len(h.arrays) + 1]),
   arrays |-> Append(h.arrays, <<>>)]

\* onRenderCallback on the object at an address: the fields are assigned
\* and the event is pushed onto the array the object refers to
onRenderCallbackAt(h, address, event) ==
  [objects |-> [h.objects EXCEPT
                  ![address] =
                     [onRenderCallback(metricsAt(h, address), event) EXCEPT
                        !.renders = h.objects[address].renders]],
   arrays |-> [h.arrays EXCEPT
                 ![h.objects[address].renders] = Append(@, event)]]

\* reset on the object at an address: the fields are assigned, and
\* `metrics.renders = []` makes the object refer to a new array; the old
\* array keeps its events
resetAt(h, address) ==
  [objects |-> [h.objects EXCEPT
                  ![address] =
                     [reset(metricsAt(h, address)) EXCEPT
                        !.renders = Len(h.arrays) + 1]],
   arrays |-> Append(h.arrays, reset(metricsAt(h, address)).renders)]

\* the same array instead of a copy of it
spreadRenders_shared(arrays_, address) ==
  [arrays |-> arrays_, address |-> address]

\* `[...metrics.renders]`: a new array with the same events
spreadRenders(arrays_, address) ==
  [arrays |-> Append(arrays_, arrays_[address]),
   address |-> Len(arrays_) + 1]

\* getSnapshot on the object at an address: `{...metrics, renders: [...]}`
\* is a new object with the same fields that refers to a copy of the
\* array; the heap after the call, and the address of the new object
getSnapshotAt(h, address) ==
  [heap |-> [objects |-> Append(h.objects,
                                [getSnapshot(h.objects[address]) EXCEPT
                                   !.renders =
                                      spreadRenders(h.arrays, @).address]),
             arrays |-> spreadRenders(h.arrays,
                                      h.objects[address].renders).arrays],
   address |-> Len(h.objects) + 1]

\* const { runs = 1, warmupRuns = 0 } = options
warmupRunsOf(opts) ==
  IF opts.warmupRuns = Undefined THEN Num(0) ELSE opts.warmupRuns

\* aggregatedMetrics before the loop over allRuns
aggregatedZero == createProfiler("measured-component")

\* one pass of `for (const run of allRuns)`
addRun(aggregated, snapshot) ==
  [aggregated EXCEPT
     !.renderCount = Add(@, snapshot.renderCount),
     !.totalActualDuration = Add(@, snapshot.totalActualDuration),
     !.totalBaseDuration = Add(@, snapshot.totalBaseDuration),
     !.renders = @ \o snapshot.renders]

\* the loop over the first k snapshots of allRuns
RECURSIVE addRuns(_, _)
addRuns(snapshots, k) ==
  IF k = 0 THEN aggregatedZero
  ELSE addRun(addRuns(snapshots, k - 1), snapshots[k])

\* if (renderCount > 0) averageRenderTime = totalActualDuration/renderCount
withAverage(aggregated) ==
  IF Gt(aggregated.renderCount, Num(0))
  THEN [aggregated EXCEPT
          !.averageRenderTime =
             Div(aggregated.totalActualDuration, aggregated.renderCount)]
  ELSE aggregated

\* the metrics measureRendersWithProfiler returns for the snapshots
aggregatedMetricsOf(snapshots) ==
  withAverage(addRuns(snapshots, Len(snapshots)))

(***************************************************************************)
(* measurement/interaction.ts                                              *)
(***************************************************************************)
\* the name measureInteraction derives from the measured element
componentNameOf(el) ==
  IF "tag" \in DOMAIN el.type THEN el.type.tag
  ELSE IF "displayName" \in DOMAIN el.type /\ el.type.displayName # ""
  THEN el.type.displayName
  ELSE IF "name" \in DOMAIN el.type /\ el.type.name # ""
  THEN el.type.name
  ELSE "UnknownComponent"

\* the rendered document: its elements by data-testid and by CSS selector
ElementsByTestId == ("edit-btn" :> "button")

ElementsBySelector ==
  ("[data-testid=edit-btn]" :> "button") @@ ("input" :> "input")

\* the measured component shows its panel once it has re-rendered
hasUpdated(metrics) ==
  \E i \in 1..Len(metrics.renders) : metrics.renders[i].phase = "update"

\* the elements of the container by CSS selector, given what was rendered
documentOf(metrics) ==
  IF hasUpdated(metrics) THEN ("#panel" :> "panel") @@ ElementsBySelector
  ELSE ElementsBySelector

\* the data-testid a selector of the form [data-testid=...] names
TestIdSelectors ==
  ("[data-testid=edit-btn]" :> "edit-btn") @@ ("[data-testid=ghost]" :> "ghost")

\* null, for an element
NoElement == "null"

queryByTestId(testId) ==
  IF testId \in DOMAIN ElementsByTestId THEN ElementsByTestId[testId]
  ELSE NoElement

querySelector(container, selector) ==
  IF selector \in DOMAIN container THEN container[selector] ELSE NoElement

\* variant: a selector that matches nothing resolves to the first element
findElement_lenient(container, selector) ==
  IF querySelector(container, selector) # NoElement
  THEN querySelector(container, selector)
  ELSE "button"

\* the element a selector resolves to; NoElement stands for the thrown
\* Error('Element not found')
findElement(container, selector) ==
  IF /\ selector \in DOMAIN TestIdSelectors
     /\ queryByTestId(TestIdSelectors[selector]) # NoElement
  THEN queryByTestId(TestIdSelectors[selector])
  ELSE querySelector(container, selector)

\* an Error, thrown or rejecting a promise
Error(message) == [error |-> message]

\* a promise that is not settled yet
Pending == [pending |-> TRUE]

IsPending(x) == "pending" \in DOMAIN x

\* variant: a kind the switch does not know fires an event of its name
FireEventOf_anyKind ==
  [click |-> "click", focus |-> "focus", blur |-> "blur",
   scroll |-> "scroll", hover |-> "mouseEnter", drag |-> "drag"]

\* variant: 'type' fires a single change, like the other kinds
FireEventOf_typeAtOnce ==
  [click |-> "click", focus |-> "focus", blur |-> "blur",
   scroll |-> "scroll", hover |-> "mouseEnter", type |-> "change"]

\* the driver event fired once for an interaction of the kind; none for
\* 'type', which fires one change per character, and for an unknown kind
FireEventOf ==
  [click |-> "click", focus |-> "focus", blur |-> "blur",
   scroll |-> "scroll", hover |-> "mouseEnter"]

\* interaction.text, the empty text when it is missing
textOf(interaction) ==
  IF "text" \in DOMAIN interaction THEN interaction.text ELSE <<>>

\* the call fireEvent[event](element, {target: {value}})
firedEvent(event, el, value) ==
  [event |-> event, element |-> el, value |-> value]

\* the tracker of a run, as created after the mount
trackerAfterMount(metrics) ==
  [rendersBefore |-> metrics.renderCount,
   rendersAfter |-> metrics.renderCount,
   renderTimeBefore |-> metrics.totalActualDuration,
   renderTimeAfter |-> metrics.totalActualDuration]

\* variant: the state before the interaction is not recorded
snapshotBefore_stale(t, metrics) == t

\* record the state before the interaction
snapshotBefore(t, metrics) ==
  [t EXCEPT !.rendersBefore = metrics.renderCount,
            !.renderTimeBefore = metrics.totalActualDuration]

\* record the state after the interaction
snapshotAfter(t, metrics) ==
  [t EXCEPT !.rendersAfter = metrics.renderCount,
            !.renderTimeAfter = metrics.totalActualDuration]

\* total / count, 0 when nothing was counted
averageOrZero(total, count) ==
  IF Gt(count, Num(0)) THEN Div(total, count) ELSE Num(0)

\* the InteractionResult performInteraction returns
interactionResultOf(interaction, t) ==
  [interaction |-> interaction,
   rendersTriggered |-> Sub(t.rendersAfter, t.rendersBefore),
   totalRenderTime |-> Sub(t.renderTimeAfter, t.renderTimeBefore),
   averageRenderTime |->
     averageOrZero(Sub(t.renderTimeAfter, t.renderTimeBefore),
                   Sub(t.rendersAfter, t.rendersBefore))]

\* numbers.reduce((sum, x) => sum + x, 0)
RECURSIVE sumOf(_)
sumOf(numbers) ==
  IF numbers = <<>> THEN Num(0)
  ELSE Add(sumOf(SubSeq(numbers, 1, Len(numbers) - 1)),
           numbers[Len(numbers)])

totalRendersOf(interactionResults_) ==
  sumOf([i \in 1..Len(interactionResults_) |->
           interactionResults_[i].rendersTriggered])

\* variant: the renders of a kind are those of its last interaction
addRendersOfType_overwrite(byType, r) ==
  (r.interaction.type :> r.rendersTriggered) @@ byType

\* rendersByType[type] = (rendersByType[type] || 0) + rendersTriggered
addRendersOfType(byType, r) ==
  (r.interaction.type :>
     Add(OrZero(Get(byType, r.interaction.type)), r.rendersTriggered))
  @@ byType

RECURSIVE rendersByTypeOf(_)
rendersByTypeOf(interactionResults_) ==
  IF interactionResults_ = <<>> THEN <<>>
  ELSE addRendersOfType(
         rendersByTypeOf(SubSeq(interactionResults_, 1,
                                Len(interactionResults_) - 1)),
         interactionResults_[Len(interactionResults_)])

rendersPerInteractionOf(totalRenders, length) ==
  IF length > 0 THEN Div(totalRenders, Num(length)) ELSE Num(0)

\* contract ? { passed: true, contract } : undefined
contractValidationOf(contract_) ==
  IF contract_ = "" THEN Undefined
  ELSE [passed |-> TRUE, contract |-> contract_]

\* the MeasureInteractionResult of one run
runResult(name, metrics, interactionResults_, opts, timestamp) ==
  [componentName |-> name,
   metrics |-> getSnapshot(metrics),
   interactionResults |-> interactionResults_,
   totalRenders |-> totalRendersOf(interactionResults_),
   rendersPerInteraction |->
     rendersPerInteractionOf(totalRendersOf(interactionResults_),
                             Len(opts.interactions)),
   rendersByType |-> rendersByTypeOf(interactionResults_),
   timestamp |-> Num(timestamp),
   contractValidation |-> contractValidationOf(opts.contract)]

\* aggregateResults: the sum of a metric over the runs
totalOf(results_, field) ==
  sumOf([r \in 1..Len(results_) |-> results_[r].metrics[field]])

\* variant: the sum over the runs is not divided by their number
averageOf_sum(results_, field) == totalOf(results_, field)

\* aggregateResults: the mean of a metric over the runs
averageOf(results_, field) ==
  Div(totalOf(results_, field), Num(Len(results_)))

RECURSIVE allRendersOf(_)
allRendersOf(results_) ==
  IF results_ = <<>> THEN <<>>
  ELSE allRendersOf(SubSeq(results_, 1, Len(results_) - 1))
         \o results_[Len(results_)].metrics.renders

\* aggregateResults: the mean over the runs of a field of the index-th results
averageAt(results_, index_, field) ==
  Div(sumOf([r \in 1..Len(results_) |->
               results_[r].interactionResults[index_][field]]),
      Num(Len(results_)))

\* variant: the mean number of renders is truncated
aggregatedInteraction_floor(results_, index_) ==
  [interaction |-> results_[1].interactionResults[index_].interaction,
   rendersTriggered |->
     Round(Sub(averageAt(results_, index_, "rendersTriggered"), Rat(1, 2))),
   totalRenderTime |-> averageAt(results_, index_, "totalRenderTime"),
   averageRenderTime |->
     averageOrZero(averageAt(results_, index_, "totalRenderTime"),
                   averageAt(results_, index_, "rendersTriggered"))]

aggregatedInteraction(results_, index_) ==
  [interaction |-> results_[1].interactionResults[index_].interaction,
   rendersTriggered |->
     Round(averageAt(results_, index_, "rendersTriggered")),
   totalRenderTime |-> averageAt(results_, index_, "totalRenderTime"),
   averageRenderTime |->
     averageOrZero(averageAt(results_, index_, "totalRenderTime"),
                   averageAt(results_, index_, "rendersTriggered"))]

aggregatedInteractions(results_) ==
  [index_ \in 1..Len(results_[1].interactionResults) |->
     aggregatedInteraction(results_, index_)]

\* variant: the average render time divides by the rounded count
aggregatedMetrics_rounded(results_) ==
  [componentName |-> results_[1].componentName,
   renderCount |-> Round(averageOf(results_, "renderCount")),
   totalActualDuration |-> averageOf(results_, "totalActualDuration"),
   totalBaseDuration |-> averageOf(results_, "totalBaseDuration"),
   averageRenderTime |->
     averageOrZero(averageOf(results_, "totalActualDuration"),
                   Round(averageOf(results_, "renderCount"))),
   renders |-> allRendersOf(results_)]

aggregatedMetrics(results_) ==
  [componentName |-> results_[1].componentName,
   renderCount |-> Round(averageOf(results_, "renderCount")),
   totalActualDuration |-> averageOf(results_, "totalActualDuration"),
   totalBaseDuration |-> averageOf(results_, "totalBaseDuration"),
   averageRenderTime |->
     averageOrZero(averageOf(results_, "totalActualDuration"),
                   averageOf(results_, "renderCount")),
   renders |-> allRendersOf(results_)]

\* the result of at least one run
aggregateOf(results_, timestamp) ==
  [componentName |-> results_[1].componentName,
   metrics |-> aggregatedMetrics(results_),
   interactionResults |-> aggregatedInteractions(results_),
   totalRenders |-> totalRendersOf(aggregatedInteractions(results_)),
   rendersPerInteraction |->
     rendersPerInteractionOf(
       totalRendersOf(aggregatedInteractions(results_)),
       Len(results_[1].interactionResults)),
   rendersByType |-> rendersByTypeOf(aggregatedInteractions(results_)),
   timestamp |-> Num(timestamp),
   contractValidation |-> results_[1].contractValidation]

\* variant: no results aggregate to an empty result
aggregateResults_emptyResult(results_, timestamp) ==
  IF Len(results_) = 0
  THEN runResult("UnknownComponent", createProfiler("UnknownComponent"),
                 <<>>, [interactions |-> <<>>, contract |-> ""], timestamp)
  ELSE aggregateOf(results_, timestamp)

aggregateResults(results_, timestamp) ==
  IF Len(results_) = 0 THEN Error("No results to aggregate")
  ELSE aggregateOf(results_, timestamp)

\* variant: a single run is aggregated like any other number of runs
returnValue_alwaysAggregate(runs_, allResults_, timestamp) ==
  aggregateResults(allResults_, timestamp)

\* what measureInteraction returns once its runs are over
returnValue(runs_, allResults_, timestamp) ==
  IF StrictEq(runs_, Num(1)) THEN allResults_[1]
  ELSE aggregateResults(allResults_, timestamp)

\* const { runs = 1 } = options
runsOf(opts) == IF opts.runs = Undefined THEN Num(1) ELSE opts.runs

(***************************************************************************)
(* Inputs                                                                  *)
(***************************************************************************)
\* largest renderCount of a measurement
MaxCount == 3

\* averageRenderTime ranges over 0, 0.5, ..., MaxHalfMs/2 milliseconds
MaxHalfMs == 12

\* largest rendersByType entry of a measurement
MaxRenders == 2

\* the interaction kinds the measured scripts and the contracts use
Kinds == {"click", "type"}

\* a map from some of the keys to the values
PartialMaps(keys, values) == UNION {[S -> values] : S \in SUBSET keys}

\* RenderMetrics, cut down to the fields the validator reads
RenderMetricsSet ==
  [componentName : {"TestComponent"},
   renderCount : {Num(n) : n \in 0..MaxCount},
   averageRenderTime : {Rat(h, 2) : h \in 0..MaxHalfMs}]

\* MeasureInteractionResult, cut down likewise
InteractionResultSet ==
  [componentName : {"TestComponent"},
   metrics : {m \in RenderMetricsSet :
                /\ m.renderCount \in {Num(0), Num(MaxCount)}
                /\ m.averageRenderTime \in {Num(0), Rat(MaxHalfMs, 2)}},
   interactionResults : {<<>>},
   rendersByType : PartialMaps(Kinds, {Num(n) : n \in 0..MaxRenders})]

MeasurementSet == RenderMetricsSet \cup InteractionResultSet

\* Required<ComponentContract>: resolved contracts, validated or not; every
\* InteractionBudget has its maxRenders, as the type requires
ContractSet ==
  [maxRenderTime : {Num(4), Infinity},
   maxRenderCount : {Num(0), Num(2), Infinity},
   maxMemoryDelta : {Infinity},
   warningThreshold : {Rat(1, 2), Rat(8, 10)},
   interactions : PartialMaps(Kinds,
                    [maxRenders : {Num(1), Infinity}]),
   meta : {<<>>}]

\* the results a report is made of
SampleResults ==
  {validateAgainstContract("TestComponent", m, c) :
     m \in {[componentName |-> "TestComponent", renderCount |-> Num(n),
             averageRenderTime |-> Num(2)] : n \in 0..MaxCount},
     c \in {[maxRenderTime |-> Num(4), maxRenderCount |-> b,
             maxMemoryDelta |-> Infinity, warningThreshold |-> Rat(8, 10),
             interactions |-> <<>>, meta |-> <<>>] : b \in {Num(2), Infinity}}}

\* longest list of results handed to getOverallStatus
MaxResults == 3

ResultLists == UNION {[1..n -> SampleResults] : n \in 0..MaxResults}

\* a record extended with each of the optional fields, or with none
WithOptional(base, key, values) ==
  base \cup {(key :> v) @@ r : r \in base, v \in values}

\* GlobalConfig as configured: unset, or with some of the fields set
GlobalSet ==
  [runs : {Undefined, Num(0), Num(1), Rat(3, 2)},
   warmupRuns : {Undefined},
   historyWindow : {Undefined, Rat(1, 2), Num(2)},
   regressionThreshold : {Undefined, Num(1), Rat(3, 2)}]

\* ComponentContract as configured, for validateConfig
DeclaredContracts ==
  WithOptional(
    [maxRenderTime : {Undefined, Num(0), Rat(1, 2)},
     maxRenderCount : {Undefined, Num(1), Rat(3, 2), Infinity},
     maxMemoryDelta : {Undefined},
     warningThreshold : {Undefined, Num(0), Rat(-1, 2)}],
    "interactions",
    {<<>>,
     [click |-> [maxRenders |-> Num(0)]],
     [click |-> [maxRenders |-> Num(2)], type |-> [maxRenders |-> Num(-1)]],
     [click |-> [maxRenders |-> Rat(1, 2)], type |-> [maxRenders |-> Infinity]]})

\* the contracts of a second configured component
OtherContracts ==
  {[maxRenderTime |-> Num(-1), maxRenderCount |-> Num(0),
    maxMemoryDelta |-> Undefined, warningThreshold |-> Num(1)],
   [maxRenderTime |-> Num(16), maxRenderCount |-> Undefined,
    maxMemoryDelta |-> Undefined, warningThreshold |-> Num(2)]}

\* ComponentContract as configured, for resolveConfig
SparseContracts ==
  WithOptional(
    WithOptional(
      [maxRenderTime : {Undefined, Num(0), Num(16), Infinity},
       maxRenderCount : {Undefined, Num(0), Num(5)},
       maxMemoryDelta : {Undefined, Num(0), Num(50)},
       warningThreshold : {Undefined, Num(0), Rat(1, 2)}],
      "interactions",
      {<<>>, [click |-> [maxRenders |-> Num(2)]]}),
    "meta",
    {<<>>, [owner |-> "team"]})

\* AggregateContract maps as configured
AggregatesSet ==
  {[G |-> [components |-> <<>>]],
   [G |-> [components |-> <<"X">>]],
   [G |-> [components |-> <<"X", "Y">>], X |-> [maxTotalRenderTime |-> Num(100)]]}

\* the components maps made of one contract for X and, or not, one for Y
ComponentsOf(contracts) ==
  {<<>>} \cup {[X |-> c] : c \in contracts}
         \cup {[X |-> c, Y |-> d] : c \in contracts, d \in OtherContracts}

\* ContractConfig values: every combination of the optional sections
ConfigsOf(globals, contracts) ==
  WithOptional(
    WithOptional(
      WithOptional({<<>>}, "global", globals),
      "components", ComponentsOf(contracts)),
    "aggregates", AggregatesSet)

ValidateConfigInputs == ConfigsOf(GlobalSet, DeclaredContracts)

ResolveConfigInputs ==
  ConfigsOf({[runs |-> Num(5), warmupRuns |-> Undefined,
              historyWindow |-> Undefined,
              regressionThreshold |-> Rat(1, 10)]},
            SparseContracts)

\* ComponentContract as found in a configuration file
LoadedContracts ==
  WithOptional(
    [maxRenderTime : {Undefined, Num(16)},
     maxRenderCount : {Undefined, Num(0)},
     maxMemoryDelta : {Undefined, Num(50), Num(0), Num(-1)},
     warningThreshold : {Undefined}],
    "interactions",
    {[click |-> [maxRenders |-> Num(2)]],
     [click |-> [maxRenders |-> Num(0)]]})

\* null, for a variable that holds an object
Null == [null |-> TRUE]

IsNull(x) == "null" \in DOMAIN x

\* null, for a variable that holds a string
NullPath == "null"

\* what loadConfig returns: null when no file is found, else the file,
\* which is perf.contracts.ts with a component or package.json with an
\* empty configuration
LoadResults ==
  {Null} \cup
  [config : {[components |-> [X |-> c]] : c \in LoadedContracts},
   filepath : {"perf.contracts.ts"},
   isEmpty : {FALSE}] \cup
  {[config |-> <<>>, filepath |-> "package.json", isEmpty |-> FALSE]}

\* the error getConfig throws for an invalid file
ConfigLoadError(filepath) ==
  [error |-> "ConfigLoadError", filepath |-> filepath]

\* how `await loadConfig(searchFrom)` settles: with what loadConfig
\* returns, or with the error it throws when the search fails
LoadOutcomes == LoadResults \cup {ConfigLoadError("undefined")}

IsError(x) == "error" \in DOMAIN x

\* number of calls of getConfig in one behaviour
MaxCalls == 2

\* the value of a variable that the invoked function does not use
None == "none"

\* most runs asked of one call
MaxRuns == 2

\* most commits React makes after the mounts during one call
MaxCommits == 2

\* the interactions the scripts are made of
Click == [type |-> "click", target |-> "[data-testid=edit-btn]"]

TypeHi == [type |-> "type", target |-> "input", text |-> <<"h", "i">>]

TypeNothing == [type |-> "type", target |-> "input"]

Focus == [type |-> "focus", target |-> "input"]

Blur == [type |-> "blur", target |-> "input"]

Scroll == [type |-> "scroll", target |-> "[data-testid=edit-btn]"]

Hover == [type |-> "hover", target |-> "[data-testid=edit-btn]"]

ClickMissing == [type |-> "click", target |-> "#missing"]

HoverGhost == [type |-> "hover", target |-> "[data-testid=ghost]"]

\* a kind that is none of InteractionType, as an untyped caller can pass
Drag == [type |-> "drag", target |-> "input"]

\* the panel is in the document only once the component has re-rendered
ClickPanel == [type |-> "click", target |-> "#panel"]

Scripts ==
  {<<>>, <<Click>>, <<Click, Click>>, <<Click, TypeHi>>, <<TypeNothing>>,
   <<Focus, Blur>>, <<Scroll, Hover>>,
   <<ClickMissing>>, <<Click, ClickMissing, Click>>, <<HoverGhost>>,
   <<Click, ClickPanel>>,
   <<Drag>>, <<Click, Drag, Click>>}

\* MeasureInteractionOptions
OptionsSet ==
  [interactions : Scripts,
   contract : {"Counter"},
   runs : {Undefined} \cup {Num(n) : n \in 0..MaxRuns}]

\* the commit of the mount, and the commits React may make afterwards
MountEvent == renderEvent("mount", Num(3), Num(3))

\* the measured elements: a component that React commits when it is
\* mounted, and one whose mount reports no commit to the profiler
Elements ==
  {[type |-> [name |-> "Counter"], mount |-> <<MountEvent>>],
   [type |-> [displayName |-> "Idle", name |-> "IdleImpl"], mount |-> <<>>]}

UpdateEvents ==
  {renderEvent("update", Rat(1, 2), Num(1)),
   renderEvent("update", Num(2), Num(2))}

\* most warm-up runs of a call of measureRendersWithProfiler
MaxWarmups == 1

\* most calls made on a profiler that is used directly
MaxOps == 4

\* the names profilers are created with
ProfilerNames == {"measured-component", "Counter"}

\* the options of measureRendersWithProfiler
RunOptionsSet ==
  [runs : {Undefined} \cup {Num(n) : n \in 0..MaxRuns},
   warmupRuns : {Undefined} \cup {Num(n) : n \in 0..MaxWarmups}]

\* the commits React reports to a profiler
RenderEvents == {MountEvent} \cup UpdateEvents

\* the RenderEvent of a commit made at a time: commitTime tells the
\* events of one profiler apart
CommitAt(event, time) ==
  [phase |-> event.phase,
   actualDuration |-> event.actualDuration,
   baseDuration |-> event.baseDuration,
   commitTime |-> Num(time)]

\* the call before its first run
MeasureFresh ==
  /\ run = 0 /\ index = 0 /\ chars = 0
  /\ profiler = Null /\ tracker = Null
  /\ interactionResults = <<>> /\ allResults = <<>>
  /\ settled = Pending
  /\ fired = <<>> /\ elementValue = <<>> /\ commitLog = <<>>
  /\ mounted = 0 /\ commits = 0 /\ now = 0 /\ yields = 0

\* no profiler of measureRendersWithProfiler exists
NoProfiler ==
  /\ heap = EmptyHeap
  /\ live = 0
  /\ taken = <<>> /\ allRuns = <<>> /\ runLog = <<>>
  /\ runOptions = None /\ scenario = FALSE /\ iteration = 0

(***************************************************************************)
(* The calls: each behaviour invokes one exported function once            *)
(***************************************************************************)
InitValidate ==
  /\ call = "validateAgainstContract"
  /\ componentName \in {"TestComponent"}
  /\ measurements \in MeasurementSet
  /\ contract \in ContractSet
  /\ results = None /\ config = None

InitOverall ==
  /\ call = "getOverallStatus"
  /\ results \in ResultLists
  /\ componentName = None /\ measurements = None /\ contract = None
  /\ config = None

InitValidateConfig ==
  /\ call = "validateConfig"
  /\ config \in ValidateConfigInputs
  /\ componentName = None /\ measurements = None /\ contract = None
  /\ results = None

InitResolveConfig ==
  /\ call = "resolveConfig"
  /\ config \in ResolveConfigInputs
  /\ componentName = None /\ measurements = None /\ contract = None
  /\ results = None

\* getConfig is called on the freshly loaded module: the cache is empty
InitGetConfig ==
  /\ call = "getConfig"
  /\ componentName = None /\ measurements = None /\ contract = None
  /\ results = None /\ config = None

Init ==
  /\ pc = "call"
  /\ result = None /\ overall = None /\ errors = None /\ resolved = None
  /\ cachedConfig = Null /\ cachedConfigPath = NullPath
  /\ loaded = Null /\ returned = None /\ calls = 0 /\ loading = 0
  /\ element = None /\ options = None /\ MeasureFresh
  /\ NoProfiler
  /\ \/ InitValidate
     \/ InitOverall
     \/ InitValidateConfig
     \/ InitResolveConfig
     \/ InitGetConfig

Validate ==
  /\ call = "validateAgainstContract" /\ pc = "call"
  /\ result' = validateAgainstContract(componentName, measurements, contract)
  /\ pc' = "done"
  /\ UNCHANGED <<profilerVars, call, componentName, measurements, contract,
                 results,
                 overall, config, errors, resolved, cacheVars, measureVars>>

GetOverallStatus ==
  /\ call = "getOverallStatus" /\ pc = "call"
  /\ overall' = getOverallStatus(results)
  /\ pc' = "done"
  /\ UNCHANGED <<profilerVars, call, componentName, measurements, contract,
                 result,
                 results, config, errors, resolved, cacheVars, measureVars>>

ValidateConfig ==
  /\ call = "validateConfig" /\ pc = "call"
  /\ errors' = validateConfig(config)
  /\ pc' = "done"
  /\ UNCHANGED <<profilerVars, call, componentName, measurements, contract,
                 result,
                 results, overall, config, resolved, cacheVars, measureVars>>

ResolveConfig ==
  /\ call = "resolveConfig" /\ pc = "call"
  /\ resolved' = resolveConfig(config)
  /\ pc' = "done"
  /\ UNCHANGED <<profilerVars, call, componentName, measurements, contract,
                 result,
                 results, overall, config, errors, cacheVars,
                 measureVars>>

\* variant: the defaults are cached without the path being reset
cacheAfterLoad_stalePath(found, before) ==
  IF IsNull(found)
  THEN [config |-> resolveConfig(<<>>), path |-> before.path]
  ELSE IF validateConfig(found.config) # <<>>
  THEN before
  ELSE [config |-> resolveConfig(found.config), path |-> found.filepath]

\* the cache once getConfig has run on what loadConfig returned: the
\* defaults and no path when no file was found, the cache as it was when
\* the file is invalid, else the resolved file and its path
cacheAfterLoad(found, before) ==
  IF IsNull(found)
  THEN [config |-> resolveConfig(<<>>), path |-> NullPath]
  ELSE IF validateConfig(found.config) # <<>>
  THEN before
  ELSE [config |-> resolveConfig(found.config), path |-> found.filepath]

\* the cache as a pair
cache == [config |-> cachedConfig, path |-> cachedConfigPath]

\* a call of getConfig(searchFrom, forceReload) up to its suspension: it
\* returns the cached configuration, or awaits loadConfig(searchFrom)
GetConfig ==
  /\ call = "getConfig" /\ pc = "call"
  /\ \E forceReload \in BOOLEAN :
       IF ~IsNull(cachedConfig) /\ ~forceReload
       THEN /\ returned' = cachedConfig
            /\ UNCHANGED loading
       ELSE /\ loading' = loading + 1
            /\ UNCHANGED returned
  /\ calls' = calls + 1
  /\ pc' = IF calls' = MaxCalls THEN "done" ELSE "call"
  /\ UNCHANGED <<profilerVars, call, callVars, measureVars,
                 cachedConfig, cachedConfigPath, loaded>>

\* loadConfig settles for one of the suspended calls, which runs to its
\* end: it throws what loadConfig threw, or caches the defaults, or throws
\* for an invalid file, or caches the resolved file
LoadSettled ==
  /\ call = "getConfig" /\ loading > 0
  /\ \E found \in LoadOutcomes :
       IF IsError(found)
       THEN /\ returned' = found
            /\ UNCHANGED <<cachedConfig, cachedConfigPath, loaded>>
       ELSE /\ loaded' = found
            /\ cachedConfig' = cacheAfterLoad(found, cache).config
            /\ cachedConfigPath' = cacheAfterLoad(found, cache).path
            /\ returned' =
                 IF ~IsNull(found) /\ validateConfig(found.config) # <<>>
                 THEN ConfigLoadError(found.filepath)
                 ELSE cachedConfig'
  /\ loading' = loading - 1
  /\ UNCHANGED <<profilerVars, call, pc, callVars, measureVars, calls>>

\* clearConfigCache()
ClearConfigCache ==
  /\ call = "getConfig"
  /\ cachedConfig' = Null
  /\ cachedConfigPath' = NullPath
  /\ UNCHANGED <<profilerVars, call, pc, callVars, measureVars,
                 loaded, returned, calls, loading>>

Next ==
  \/ Validate
  \/ GetOverallStatus
  \/ ValidateConfig
  \/ ResolveConfig
  \/ GetConfig
  \/ LoadSettled
  \/ ClearConfigCache

Spec == Init /\ [][Next]_vars

(***************************************************************************)
(* measureInteraction as a process: one step per stretch of code between   *)
(* two suspensions, and one step of React per commit                       *)
(***************************************************************************)
MeasureInit ==
  /\ call = "measureInteraction" /\ pc = "loop"
  /\ element \in Elements
  /\ options \in OptionsSet
  /\ MeasureFresh
  /\ NoProfiler
  /\ componentName = None /\ measurements = None /\ contract = None
  /\ result = None /\ results = None /\ overall = None
  /\ config = None /\ errors = None /\ resolved = None
  /\ cachedConfig = Null /\ cachedConfigPath = NullPath
  /\ loaded = Null /\ returned = None /\ calls = 0 /\ loading = 0

\* the interaction being performed, and the element it targets
current == options.interactions[index]

target == findElement(documentOf(profiler), current.target)

\* variant: the runs after the first go on with the profiler of the one
\* before
mountedProfiler_carriedOver(el) ==
  IF IsNull(profiler)
  THEN IF el.mount = <<>> THEN createProfiler(componentNameOf(el))
       ELSE onRenderCallback(createProfiler(componentNameOf(el)), el.mount[1])
  ELSE IF el.mount = <<>> THEN profiler
       ELSE onRenderCallback(profiler, el.mount[1])

\* the profiler of a run once the element is mounted
mountedProfiler(el) ==
  IF el.mount = <<>> THEN createProfiler(componentNameOf(el))
  ELSE onRenderCallback(createProfiler(componentNameOf(el)), el.mount[1])

\* for (run < runs): create the profiler and mount the wrapped element,
\* which React commits at once; then wait for the initial render. The
\* tracker and the interaction results of the iteration do not exist yet.
StartRun ==
  /\ call = "measureInteraction" /\ pc = "loop"
  /\ Lt(Num(run), runsOf(options))
  /\ profiler' = mountedProfiler(element)
  /\ commitLog' = [i \in 1..Len(element.mount) |-> 0]
  /\ mounted' = mounted + 1
  /\ elementValue' = [e \in {"button", "input", "panel"} |-> <<>>]
  /\ tracker' = Null /\ interactionResults' = <<>> /\ index' = 0
  /\ yields' = 0
  /\ pc' = "mountWait"
  /\ UNCHANGED <<profilerVars, call, callVars, cacheVars, arguments, run, chars,
                 allResults, settled, fired, commits, now>>

\* the place of the code a commit falls in: 0 for the mount, i while the
\* i-th interaction is performed, -i in the gap after it
Window ==
  IF pc = "mountWait" THEN 0
  ELSE IF pc = "between" THEN -index
  ELSE index

\* React commits a render while measureInteraction is suspended
Commit ==
  /\ call = "measureInteraction"
  /\ pc \in {"mountWait", "typing", "wait", "between"}
  /\ commits < MaxCommits
  /\ \E event \in UpdateEvents : profiler' = onRenderCallback(profiler, event)
  /\ commitLog' = Append(commitLog, Window)
  /\ commits' = commits + 1
  /\ UNCHANGED <<profilerVars, call, pc, callVars, cacheVars, arguments,
                 yields, run, index, chars,
                 tracker, interactionResults, allResults, settled, fired,
                 elementValue, mounted, now>>

\* after the wait for the initial render: the tracker starts at the mount
AfterMount ==
  /\ call = "measureInteraction" /\ pc = "mountWait"
  /\ tracker' = trackerAfterMount(profiler)
  /\ interactionResults' = <<>>
  /\ index' = 1
  /\ pc' = IF Len(options.interactions) = 0 THEN "finish" ELSE "perform"
  /\ UNCHANGED <<profilerVars, call, callVars, cacheVars, arguments, yields,
                 run, chars, profiler,
                 allResults, settled, fired, elementValue, commitLog, mounted,
                 commits, now>>

\* performInteraction up to its first suspension
Perform ==
  /\ call = "measureInteraction" /\ pc = "perform"
  /\ IF target = NoElement
     THEN /\ settled' = Error("Element not found")
          /\ pc' = "rejected"
          /\ UNCHANGED <<tracker, fired, elementValue, chars, yields>>
     ELSE /\ tracker' = snapshotBefore(tracker, profiler)
          /\ IF current.type \in DOMAIN FireEventOf
             THEN /\ fired' = Append(fired,
                        firedEvent(FireEventOf[current.type],
                                   target, <<>>))
                  /\ pc' = "wait"
                  /\ yields' = 1
                  /\ UNCHANGED <<elementValue, chars, settled>>
             ELSE IF current.type = "type"
             THEN IF textOf(current) = <<>>
                  THEN /\ pc' = "wait"
                       /\ yields' = 1
                       /\ UNCHANGED <<fired, elementValue, chars, settled>>
                  ELSE /\ fired' = Append(fired,
                             firedEvent("change", target,
                                Append(elementValue[target],
                                       textOf(current)[1])))
                       /\ elementValue' =
                            [elementValue EXCEPT
                               ![target] =
                                  Append(@, textOf(current)[1])]
                       /\ chars' = 1
                       /\ pc' = "typing"
                       /\ yields' = 1
                       /\ UNCHANGED settled
             ELSE /\ settled' = Error("Unknown interaction type")
                  /\ pc' = "rejected"
                  /\ UNCHANGED <<fired, elementValue, chars, yields>>
  /\ UNCHANGED <<profilerVars, call, callVars, cacheVars, arguments, run,
                 index, profiler,
                 interactionResults, allResults, commitLog, mounted,
                 commits, now>>

\* 'type', resumed after a character: the next character and its wait, or
\* the end of the text and the last wait
TypeChar ==
  /\ call = "measureInteraction" /\ pc = "typing"
  /\ IF chars < Len(textOf(current))
     THEN /\ fired' = Append(fired,
                firedEvent("change", target,
                   Append(elementValue[target],
                          textOf(current)[chars + 1])))
          /\ elementValue' = [elementValue EXCEPT ![target] =
                          Append(@, textOf(current)[chars + 1])]
          /\ chars' = chars + 1
          /\ pc' = "typing"
     ELSE /\ pc' = "wait"
          /\ chars' = 0
          /\ UNCHANGED <<fired, elementValue>>
  /\ yields' = yields + 1
  /\ UNCHANGED <<profilerVars, call, callVars, cacheVars, arguments, run,
                 index, profiler,
                 tracker, interactionResults, allResults, settled,
                 commitLog, mounted, commits, now>>

\* performInteraction resumed after its last wait: the state after the
\* interaction and its result, which measureInteraction appends to the
\* run's results once act has returned
AfterWait ==
  /\ call = "measureInteraction" /\ pc = "wait"
  /\ tracker' = snapshotAfter(tracker, profiler)
  /\ interactionResults' =
       Append(interactionResults, interactionResultOf(current, tracker'))
  /\ pc' = "between"
  /\ UNCHANGED <<profilerVars, call, callVars, cacheVars, arguments, yields,
                 run, index, chars,
                 profiler, allResults, settled, fired, elementValue, commitLog,
                 mounted, commits, now>>

\* act has returned: the next interaction, or the end of the script
NextInteraction ==
  /\ call = "measureInteraction" /\ pc = "between"
  /\ IF index < Len(options.interactions)
     THEN index' = index + 1 /\ pc' = "perform"
     ELSE index' = index /\ pc' = "finish"
  /\ UNCHANGED <<profilerVars, call, callVars, cacheVars, arguments, yields,
                 run, chars, profiler,
                 tracker, interactionResults, allResults, settled, fired,
                 elementValue, commitLog, mounted, commits, now>>

\* the result of the run, and the unmount
FinishRun ==
  /\ call = "measureInteraction" /\ pc = "finish"
  /\ allResults' =
       Append(allResults,
              runResult(componentNameOf(element), profiler,
                        interactionResults, options, now))
  /\ now' = now + 1
  /\ mounted' = mounted - 1
  /\ run' = run + 1
  /\ pc' = "loop"
  /\ UNCHANGED <<profilerVars, call, callVars, cacheVars, arguments, yields,
                 index, chars, profiler,
                 tracker, interactionResults, settled, fired, elementValue,
                 commitLog, commits>>

\* after the last run: the single result, or the aggregate
Return ==
  /\ call = "measureInteraction" /\ pc = "loop"
  /\ ~Lt(Num(run), runsOf(options))
  /\ settled' = returnValue(runsOf(options), allResults, now)
  /\ pc' = IF IsError(settled') THEN "rejected" ELSE "resolved"
  /\ now' = IF StrictEq(runsOf(options), Num(1)) \/ IsError(settled')
            THEN now ELSE now + 1
  /\ UNCHANGED <<profilerVars, call, callVars, cacheVars, arguments, yields,
                 run, index, chars,
                 profiler, tracker, interactionResults, allResults, fired,
                 elementValue, commitLog, mounted, commits>>

MeasureNext ==
  \/ StartRun
  \/ Commit
  \/ AfterMount
  \/ Perform
  \/ TypeChar
  \/ AfterWait
  \/ NextInteraction
  \/ FinishRun
  \/ Return

MeasureSpec == MeasureInit /\ [][MeasureNext]_vars

(***************************************************************************)
(* A profiler of createProfiler used directly, and                         *)
(* measureRendersWithProfiler as a process: warm-up runs, then measured    *)
(* runs, on one profiler. renderFn and the scenario are taken to return    *)
(* normally. measureRendersWithProfiler does not hand its profiler to      *)
(* renderFn; the process lets commits reach it all the same, which covers  *)
(* every way of wiring the tree to it.                                     *)
(***************************************************************************)
ProfilerInit ==
  /\ call \in {"createProfiler", "measureRendersWithProfiler"}
  /\ IF call = "createProfiler"
     THEN /\ pc = "use"
          /\ componentName \in ProfilerNames
          /\ runOptions = None /\ scenario = FALSE
     ELSE /\ pc = "warmup"
          /\ componentName = "measured-component"
          /\ runOptions \in RunOptionsSet
          /\ scenario \in BOOLEAN
  /\ heap = createProfilerAt(EmptyHeap, componentName)
  /\ live = 1
  /\ taken = <<>> /\ allRuns = <<>> /\ runLog = << <<>> >>
  /\ iteration = 0
  /\ element = None /\ options = None /\ MeasureFresh
  /\ measurements = None /\ contract = None
  /\ result = None /\ results = None /\ overall = None
  /\ config = None /\ errors = None /\ resolved = None
  /\ cachedConfig = Null /\ cachedConfigPath = NullPath
  /\ loaded = Null /\ returned = None /\ calls = 0 /\ loading = 0

\* the calls made so far on a profiler that is used directly
opsDone == commits + (Len(runLog) - 1) + Len(taken)

\* the event is recorded by the profiler, and noted in the log
recorded(event) ==
  /\ heap' = onRenderCallbackAt(heap, live, CommitAt(event, now))
  /\ runLog' = [runLog EXCEPT ![Len(runLog)] =
                  Append(@, CommitAt(event, now))]
  /\ commits' = commits + 1
  /\ now' = now + 1

\* profiler.onRenderCallback(...)
OnRender ==
  /\ call = "createProfiler" /\ pc = "use"
  /\ opsDone < MaxOps /\ commits < MaxCommits
  /\ \E event \in RenderEvents : recorded(event)
  /\ UNCHANGED <<call, pc, callVars, cacheVars, arguments, yields, run, index,
                 chars,
                 profiler, tracker, interactionResults, allResults, settled,
                 fired, elementValue, commitLog, mounted,
                 live, taken, allRuns, runOptions, scenario, iteration>>

\* profiler.reset()
Reset ==
  /\ call = "createProfiler" /\ pc = "use"
  /\ opsDone < MaxOps
  /\ heap' = resetAt(heap, live)
  /\ runLog' = Append(runLog, <<>>)
  /\ UNCHANGED <<call, pc, callVars, cacheVars, measureVars,
                 live, taken, allRuns, runOptions, scenario, iteration>>

\* profiler.getSnapshot()
GetSnapshot ==
  /\ call = "createProfiler" /\ pc = "use"
  /\ opsDone < MaxOps
  /\ heap' = getSnapshotAt(heap, live).heap
  /\ taken' = Append(taken, getSnapshotAt(heap, live).address)
  /\ UNCHANGED <<call, pc, callVars, cacheVars, measureVars,
                 live, allRuns, runLog, runOptions, scenario, iteration>>

\* for (i < warmupRuns): profiler.reset(); renderFn() is entered
WarmupRun ==
  /\ call = "measureRendersWithProfiler" /\ pc = "warmup"
  /\ Lt(Num(iteration), warmupRunsOf(runOptions))
  /\ heap' = resetAt(heap, live)
  /\ runLog' = Append(runLog, <<>>)
  /\ pc' = "warmupRender"
  /\ UNCHANGED <<call, callVars, cacheVars, measureVars,
                 live, taken, allRuns, runOptions, scenario, iteration>>

\* the warm-up loop is left: `let i = 0` of the measured runs
StartMeasuring ==
  /\ call = "measureRendersWithProfiler" /\ pc = "warmup"
  /\ ~Lt(Num(iteration), warmupRunsOf(runOptions))
  /\ iteration' = 0
  /\ pc' = "runs"
  /\ UNCHANGED <<call, callVars, cacheVars, measureVars,
                 heap, live, taken, allRuns, runLog, runOptions, scenario>>

\* for (i < runs): profiler.reset(); renderFn() is entered
MeasuredRun ==
  /\ call = "measureRendersWithProfiler" /\ pc = "runs"
  /\ Lt(Num(iteration), runsOf(runOptions))
  /\ heap' = resetAt(heap, live)
  /\ runLog' = Append(runLog, <<>>)
  /\ pc' = "render"
  /\ UNCHANGED <<call, callVars, cacheVars, measureVars,
                 live, taken, allRuns, runOptions, scenario, iteration>>

\* React commits a render while renderFn or the scenario runs
Record ==
  /\ call = "measureRendersWithProfiler"
  /\ pc \in {"warmupRender", "warmupScenario", "render", "scenario"}
  /\ commits < MaxCommits
  /\ \E event \in RenderEvents : recorded(event)
  /\ UNCHANGED <<call, pc, callVars, cacheVars, arguments, yields, run, index,
                 chars,
                 profiler, tracker, interactionResults, allResults, settled,
                 fired, elementValue, commitLog, mounted,
                 live, taken, allRuns, runOptions, scenario, iteration>>

\* the end of an iteration: a measured run pushes the snapshot
endOfRun ==
  /\ iteration' = iteration + 1
  /\ IF pc \in {"warmupRender", "warmupScenario"}
     THEN /\ pc' = "warmup"
          /\ UNCHANGED <<heap, allRuns>>
     ELSE /\ pc' = "runs"
          /\ heap' = getSnapshotAt(heap, live).heap
          /\ allRuns' = Append(allRuns, getSnapshotAt(heap, live).address)

\* renderFn returned: `if (scenario) await scenario()`
AfterRender ==
  /\ call = "measureRendersWithProfiler"
  /\ pc \in {"warmupRender", "render"}
  /\ IF scenario
     THEN /\ pc' = IF pc = "render" THEN "scenario" ELSE "warmupScenario"
          /\ UNCHANGED <<heap, allRuns, iteration>>
     ELSE endOfRun
  /\ UNCHANGED <<call, callVars, cacheVars, measureVars,
                 live, taken, runLog, runOptions, scenario>>

\* the scenario settled
AfterScenario ==
  /\ call = "measureRendersWithProfiler"
  /\ pc \in {"warmupScenario", "scenario"}
  /\ endOfRun
  /\ UNCHANGED <<call, callVars, cacheVars, measureVars,
                 live, taken, runLog, runOptions, scenario>>

\* the value of `result!`: renderFn's n-th call returns n
lastResult == IF Len(runLog) = 1 THEN Undefined ELSE Num(Len(runLog) - 1)

\* after the measured runs: the aggregate of allRuns is returned
ReturnMetrics ==
  /\ call = "measureRendersWithProfiler" /\ pc = "runs"
  /\ ~Lt(Num(iteration), runsOf(runOptions))
  /\ settled' =
       [result |-> lastResult,
        metrics |->
          aggregatedMetricsOf([k \in 1..Len(allRuns) |->
                                 metricsAt(heap, allRuns[k])]),
        allRuns |-> allRuns]
  /\ pc' = "resolved"
  /\ UNCHANGED <<call, callVars, cacheVars, arguments, yields, run, index,
                 chars,
                 profiler, tracker, interactionResults, allResults,
                 fired, elementValue, commitLog, mounted, commits, now,
                 profilerVars>>

ProfilerNext ==
  \/ OnRender
  \/ Reset
  \/ GetSnapshot
  \/ WarmupRun
  \/ StartMeasuring
  \/ MeasuredRun
  \/ Record
  \/ AfterRender
  \/ AfterScenario
  \/ ReturnMetrics

ProfilerSpec == ProfilerInit /\ [][ProfilerNext]_vars

(***************************************************************************)
(* Properties of validateAgainstContract and getOverallStatus              *)
(***************************************************************************)
Returned(f) == call = f /\ pc = "done"

\* the RenderMetrics of the measurement handed to the validator
Measured ==
  IF "metrics" \in DOMAIN measurements THEN measurements.metrics
  ELSE measurements

\* the measured renders of a kind, 0 for a kind that never occurred
MeasuredRenders(kind) ==
  IF "rendersByType" \in DOMAIN measurements
       /\ kind \in DOMAIN measurements.rendersByType
  THEN measurements.rendersByType[kind]
  ELSE Num(0)

\* the kinds with an entry in result.metrics.rendersPerInteraction
CheckedKinds ==
  IF "rendersPerInteraction" \in DOMAIN result.metrics
  THEN DOMAIN result.metrics.rendersPerInteraction
  ELSE {}

\* the metrics of result.metrics, each with its name, the measured value and
\* the budget of the inputs, and the MetricValidation of the result
CheckedMetrics ==
  (IF "renderTime" \in DOMAIN result.metrics
   THEN {[metric |-> "renderTime", actual |-> Measured.averageRenderTime,
          budget |-> contract.maxRenderTime,
          validation |-> result.metrics.renderTime]}
   ELSE {})
  \cup
  (IF "renderCount" \in DOMAIN result.metrics
   THEN {[metric |-> "renderCount", actual |-> Measured.renderCount,
          budget |-> contract.maxRenderCount,
          validation |-> result.metrics.renderCount]}
   ELSE {})
  \cup
  {[metric |-> InteractionMetric(kind), actual |-> MeasuredRenders(kind),
    budget |-> Get(Get(contract.interactions, kind), "maxRenders"),
    validation |-> result.metrics.rendersPerInteraction[kind]] :
     kind \in CheckedKinds}

\* the contract without the interaction budgets that are +infinity
WithoutInfiniteInteractions(c) ==
  [c EXCEPT !.interactions =
     [kind \in {t \in DOMAIN c.interactions :
                  c.interactions[t].maxRenders # Infinity}
        |-> c.interactions[kind]]]

\* C1: a metric whose budget is +infinity (maxRenderTime, maxRenderCount or
\* an interaction kind's maxRenders) has no entry in result.metrics and
\* changes neither the status nor the violations of the result.
C1_InfiniteBudgetIsSkipped ==
  Returned("validateAgainstContract") =>
    /\ contract.maxRenderTime = Infinity
         => "renderTime" \notin DOMAIN result.metrics
    /\ contract.maxRenderCount = Infinity
         => "renderCount" \notin DOMAIN result.metrics
    /\ \A kind \in DOMAIN contract.interactions :
         contract.interactions[kind].maxRenders = Infinity
           => kind \notin CheckedKinds
    /\ LET without == validateAgainstContract(componentName, measurements,
                        WithoutInfiniteInteractions(contract))
       IN result.status = without.status
          /\ result.violations = without.violations

\* C2: for every checked metric with budget > 0, the status is fail iff
\* actual > budget, warn iff warningThreshold < actual/budget <= 1, and
\* pass otherwise.
C2_MetricStatus ==
  Returned("validateAgainstContract") =>
    \A m \in CheckedMetrics :
      Gt(m.budget, Num(0)) =>
        LET isFail == Gt(m.actual, m.budget)
            isWarn == /\ Lt(contract.warningThreshold, Div(m.actual, m.budget))
                      /\ Le(Div(m.actual, m.budget), Num(1))
        IN /\ m.validation.status = "fail" <=> isFail
           /\ m.validation.status = "warn" <=> isWarn
           /\ m.validation.status = "pass" <=> ~isFail /\ ~isWarn

\* a metric exactly at its budget warns while another one, over budget, fails
C2_Witness ==
  /\ Returned("validateAgainstContract")
  /\ \E m \in CheckedMetrics :
       /\ IsFinite(m.budget) /\ Gt(m.budget, Num(0)) /\ m.actual = m.budget
       /\ m.validation.status = "warn"
  /\ \E m \in CheckedMetrics :
       Gt(m.budget, Num(0)) /\ m.validation.status = "fail"
  /\ \E m \in CheckedMetrics :
       Gt(m.budget, Num(0)) /\ m.validation.status = "pass"

\* the name, budget and actual value of a violation
Key(v) == [metric |-> v.metric, budget |-> v.budget, actual |-> v.actual]

\* C3: violations holds exactly one Violation for each checked metric whose
\* status is fail, carrying the metric's name, budget and actual value, and
\* none for a metric whose status is warn or pass.
C3_ViolationsAreTheFailures ==
  Returned("validateAgainstContract") =>
    LET failed == {Key(m) : m \in {c \in CheckedMetrics :
                                     c.validation.status = "fail"}}
        reported == {Key(result.violations[i]) :
                       i \in 1..Len(result.violations)}
    IN /\ reported = failed
       /\ Len(result.violations) = Cardinality(failed)

\* two metrics fail and are reported while a third one only warns
C3_Witness ==
  /\ Returned("validateAgainstContract")
  /\ Len(result.violations) = 2
  /\ \E m \in CheckedMetrics : m.validation.status = "warn"
  /\ \E m \in CheckedMetrics : m.validation.status = "pass"

\* the product of two finite numbers
Times(x, y) == Rat(x.n * y.n, x.d * y.d)

Rank(status) == [pass |-> 0, warn |-> 1, fail |-> 2][status]

\* the largest rank of a set of statuses, that of pass when there is none
MaxRank(statuses) ==
  CHOOSE r \in 0..2 :
    /\ \A s \in statuses : Rank(s) <= r
    /\ r = 0 \/ \E s \in statuses : Rank(s) = r

\* C5: the overall status is the most severe status present (fail > warn >
\* pass), for a component over its per-metric statuses and for a report over
\* its component results; it is pass when there is nothing to combine.
C5_MostSevereStatus ==
  /\ Returned("validateAgainstContract") =>
       Rank(result.status) =
         MaxRank({m.validation.status : m \in CheckedMetrics})
  /\ Returned("getOverallStatus") =>
       Rank(overall) =
         MaxRank({results[i].status : i \in 1..Len(results)})

\* a report whose results pass, warn and fail is a failure
C5_Witness ==
  /\ Returned("getOverallStatus")
  /\ {results[i].status : i \in 1..Len(results)} = {"pass", "warn", "fail"}
  /\ results[1].status = "warn"
  /\ overall = "fail"

\* C6: every MetricValidation has utilization = actual/budget, and 0 when
\* the budget is 0; the utilization is never NaN or Infinity.
C6_UtilizationIsWellFormed ==
  Returned("validateAgainstContract") =>
    \A m \in CheckedMetrics :
      /\ m.validation.utilization =
           (IF m.budget = Num(0) THEN Num(0) ELSE Div(m.actual, m.budget))
      /\ IsFinite(m.validation.utilization)

\* every checked kind is compared against its own budget and measurement
CheckedKindsAreMeasured ==
  \A kind \in CheckedKinds :
    LET v == result.metrics.rendersPerInteraction[kind]
    IN /\ v.actual = MeasuredRenders(kind)
       /\ v.budget = contract.interactions[kind].maxRenders

\* C7: with interaction data, every kind declared in the contract's
\* interactions map is checked, with rendersByType[kind] (0 when the kind
\* never occurred) against the kind's maxRenders, and no other kind is.
C7_EveryDeclaredKindIsChecked ==
  Returned("validateAgainstContract")
    /\ "interactionResults" \in DOMAIN measurements =>
      /\ CheckedKinds = DOMAIN contract.interactions
      /\ CheckedKindsAreMeasured

\* a declared kind never occurred and is checked with 0; a measured kind is
\* not declared and is not checked
C7_Witness ==
  /\ Returned("validateAgainstContract")
  /\ "interactionResults" \in DOMAIN measurements
  /\ DOMAIN contract.interactions = {"click"}
  /\ DOMAIN measurements.rendersByType = {"type"}
  /\ measurements.rendersByType["type"] = Num(2)
  /\ CheckedKinds = {"click"}
  /\ result.metrics.rendersPerInteraction["click"].actual = Num(0)

(***************************************************************************)
(* Properties of validateConfig and resolveConfig                          *)
(***************************************************************************)
IsSet(x) == x # Undefined

IsPositive(x) == Gt(x, Num(0))

IsPositiveInteger(x) == IsInteger(x) /\ x.n >= 1

InUnitInterval(x) == Le(Num(0), x) /\ Le(x, Num(1))

\* the message of a rule, when the rule is broken
Broken(isBroken, message) == IF isBroken THEN {message} ELSE {}

\* the messages of the rules that a configured component breaks
BrokenByComponent(name, c) ==
  Broken(IsSet(c.maxRenderTime) /\ ~IsPositive(c.maxRenderTime),
         <<name, "maxRenderTime must be positive">>)
  \cup
  Broken(IsSet(c.maxRenderCount) /\ ~IsPositiveInteger(c.maxRenderCount),
         <<name, "maxRenderCount must be a positive integer">>)
  \cup
  Broken(IsSet(c.warningThreshold) /\ ~InUnitInterval(c.warningThreshold),
         <<name, "warningThreshold must be between 0 and 1">>)
  \cup
  (IF "interactions" \in DOMAIN c
   THEN UNION {Broken(IsSet(c.interactions[kind].maxRenders)
                        /\ ~IsPositive(c.interactions[kind].maxRenders),
                      <<name, "interactions", kind,
                        "maxRenders must be positive">>) :
               kind \in DOMAIN c.interactions}
   ELSE {})

\* the messages of the rules that the configuration breaks
BrokenRules ==
  (IF "global" \in DOMAIN config
   THEN Broken(IsSet(config.global.runs)
                 /\ ~IsPositiveInteger(config.global.runs),
               <<"global", "runs must be a positive integer">>)
        \cup
        Broken(IsSet(config.global.historyWindow)
                 /\ ~IsPositiveInteger(config.global.historyWindow),
               <<"global", "historyWindow must be a positive integer">>)
        \cup
        Broken(IsSet(config.global.regressionThreshold)
                 /\ ~InUnitInterval(config.global.regressionThreshold),
               <<"global", "regressionThreshold must be between 0 and 1">>)
   ELSE {})
  \cup
  (IF "components" \in DOMAIN config
   THEN UNION {BrokenByComponent(name, config.components[name]) :
               name \in DOMAIN config.components}
   ELSE {})
  \cup
  (IF "aggregates" \in DOMAIN config
   THEN UNION {Broken("components" \notin DOMAIN config.aggregates[name]
                        \/ config.aggregates[name].components = <<>>,
                      <<name, "components must be a non-empty array">>) :
               name \in DOMAIN config.aggregates}
   ELSE {})

C10_ResolvedBudgets ==
  Returned("resolveConfig") /\ "components" \in DOMAIN config =>
    /\ DOMAIN resolved.components = DOMAIN config.components
    /\ \A name \in DOMAIN config.components :
         LET declared == config.components[name]
             r == resolved.components[name]
         IN /\ \A field \in {"maxRenderTime", "maxRenderCount",
                             "maxMemoryDelta"} :
                 r[field] = IF IsSet(declared[field]) THEN declared[field]
                            ELSE Infinity
            /\ ~IsSet(declared.warningThreshold)
                 => r.warningThreshold = Rat(4, 5)
            /\ "interactions" \notin DOMAIN declared
                 => DOMAIN r.interactions = {}
            /\ "meta" \notin DOMAIN declared => DOMAIN r.meta = {}

\* a declared budget of 0 is kept next to budgets left unset
C10_Witness ==
  /\ Returned("resolveConfig")
  /\ "components" \in DOMAIN config
  /\ "X" \in DOMAIN config.components
  /\ config.components["X"].maxRenderTime = Num(0)
  /\ config.components["X"].maxRenderCount = Undefined
  /\ config.components["X"].maxMemoryDelta = Num(50)
  /\ config.components["X"].warningThreshold = Undefined
  /\ DOMAIN config.components["X"] \cap {"interactions", "meta"} = {}
  /\ resolved.components["X"].maxRenderTime = Num(0)
  /\ resolved.components["X"].maxRenderCount = Infinity
  /\ resolved.components["X"].maxMemoryDelta = Num(50)

\* a numeric budget as the data model wants it: positive finite, or +Infinity
IsBudget(x) == x = Infinity \/ (IsFinite(x) /\ Gt(x, Num(0)))

BudgetsOfContract(c) ==
  {c.maxRenderTime, c.maxRenderCount, c.maxMemoryDelta}
    \cup {c.interactions[kind].maxRenders : kind \in DOMAIN c.interactions}

BudgetsOf(resolvedConfig) ==
  UNION {BudgetsOfContract(resolvedConfig.components[name]) :
           name \in DOMAIN resolvedConfig.components}

\* what resolveConfig returned holds budgets only
ResolveConfigBudgets ==
  Returned("resolveConfig") => \A b \in BudgetsOf(resolved) : IsBudget(b)

\* what getConfig has cached after validating the file holds budgets only
GetConfigBudgets ==
  ~IsNull(cachedConfig) => \A b \in BudgetsOf(cachedConfig) : IsBudget(b)

\* C11: in every resolved contract that resolveConfig returns, and in every
\* one that getConfig caches, each of maxRenderTime, maxRenderCount,
\* maxMemoryDelta and the interactions' maxRenders is a positive finite
\* number or +Infinity.
C11_BudgetsArePositiveOrInfinite ==
  ResolveConfigBudgets /\ GetConfigBudgets

(***************************************************************************)
(* Properties of measureInteraction and aggregateResults                   *)
(***************************************************************************)
\* measureInteraction has returned a result
Resolved == call = "measureInteraction" /\ pc = "resolved"

\* the returned result aggregates two runs or more
Aggregated == Resolved /\ Len(allResults) >= 2

\* C12: with runs = 1, measureInteraction returns the result of its only
\* run as it is: the run's metrics and interaction results, no field
\* averaged, rounded or taken anew.
C12_SingleRunIsReturnedUnchanged ==
  Resolved /\ runsOf(options) = Num(1) =>
    /\ Len(allResults) = 1
    /\ settled = allResults[1]
    /\ settled.metrics = profiler
    /\ settled.interactionResults = interactionResults

\* a single run of two interactions with a fractional average render time
C12_Witness ==
  /\ Resolved
  /\ options.runs = Num(1)
  /\ Len(settled.interactionResults) = 2
  /\ settled.totalRenders = Num(2)
  /\ ~IsInteger(settled.metrics.averageRenderTime)

\* the scalar values of a result
Scalars(r) ==
  [renderCount |-> r.metrics.renderCount,
   totalActualDuration |-> r.metrics.totalActualDuration,
   totalBaseDuration |-> r.metrics.totalBaseDuration,
   averageRenderTime |-> r.metrics.averageRenderTime,
   interactions |->
     [i \in 1..Len(r.interactionResults) |->
        [rendersTriggered |-> r.interactionResults[i].rendersTriggered,
         totalRenderTime |-> r.interactionResults[i].totalRenderTime,
         averageRenderTime |-> r.interactionResults[i].averageRenderTime]],
   totalRenders |-> r.totalRenders,
   rendersPerInteraction |-> r.rendersPerInteraction,
   rendersByType |-> r.rendersByType]

\* every run measured the same scalar values
IdenticalRuns ==
  \A r \in 1..Len(allResults) :
    Scalars(allResults[r]) = Scalars(allResults[1])

MeanOf(numbers) == Div(sumOf(numbers), Num(Len(numbers)))

\* n is the integer nearest to x, the upper one when x lies half-way
IsNearestInteger(n, x) ==
  /\ IsInteger(n)
  /\ Le(Sub(n, Rat(1, 2)), x)
  /\ Lt(x, Add(n, Rat(1, 2)))

\* the values of a metric in the runs, in run order
RunMetric(field) ==
  [r \in 1..Len(allResults) |-> allResults[r].metrics[field]]

\* the events of the first k runs, in run order
RECURSIVE RendersOfRuns(_)
RendersOfRuns(k) ==
  IF k = 0 THEN <<>>
  ELSE RendersOfRuns(k - 1) \o allResults[k].metrics.renders

\* C14: over two or more runs the aggregated renderCount is the integer
\* nearest to the mean count (halves up), the two total durations are the
\* plain means, averageRenderTime is mean duration / mean count (0 when the
\* mean count is 0), and renders lists every run's events in run order.
C14_AggregatedMetrics ==
  Aggregated =>
    /\ IsNearestInteger(settled.metrics.renderCount,
                        MeanOf(RunMetric("renderCount")))
    /\ settled.metrics.totalActualDuration =
         MeanOf(RunMetric("totalActualDuration"))
    /\ settled.metrics.totalBaseDuration =
         MeanOf(RunMetric("totalBaseDuration"))
    /\ settled.metrics.averageRenderTime =
         IF MeanOf(RunMetric("renderCount")) = Num(0) THEN Num(0)
         ELSE Div(MeanOf(RunMetric("totalActualDuration")),
                  MeanOf(RunMetric("renderCount")))
    /\ settled.metrics.renders = RendersOfRuns(Len(allResults))

\* the mean count lies half-way between two integers
C14_Witness ==
  /\ Aggregated
  /\ MeanOf(RunMetric("renderCount")) = Rat(3, 2)
  /\ settled.metrics.renderCount = Num(2)
  /\ Len(settled.metrics.renders) = 3

\* the values of a field of the i-th interaction result in the runs
RunInteraction(i, field) ==
  [r \in 1..Len(allResults) |-> allResults[r].interactionResults[i][field]]

\* C15: over two or more runs of a script the aggregated result has one
\* interaction result per interaction of the script, the i-th describing
\* the i-th interaction: its rendersTriggered is the integer nearest to the
\* mean of the runs' i-th rendersTriggered and its totalRenderTime the mean
\* of the runs' i-th totalRenderTime.
C15_InteractionsAreAggregatedByIndex ==
  Aggregated =>
    /\ Len(settled.interactionResults) = Len(options.interactions)
    /\ \A i \in 1..Len(options.interactions) :
         /\ settled.interactionResults[i].interaction =
              options.interactions[i]
         /\ IsNearestInteger(settled.interactionResults[i].rendersTriggered,
                             MeanOf(RunInteraction(i, "rendersTriggered")))
         /\ settled.interactionResults[i].totalRenderTime =
              MeanOf(RunInteraction(i, "totalRenderTime"))

\* a click and a text entry: the click rendered in one run of two, the
\* text entry in none
C15_Witness ==
  /\ Aggregated
  /\ options.interactions = <<Click, TypeHi>>
  /\ MeanOf(RunInteraction(1, "rendersTriggered")) = Rat(1, 2)
  /\ settled.interactionResults[1].rendersTriggered = Num(1)
  /\ settled.interactionResults[2].rendersTriggered = Num(0)

\* the kinds of the interactions of a list of interaction results
KindsOf(rs) == {rs[i].interaction.type : i \in 1..Len(rs)}

\* the renders of the interactions of the kind among the first k results
RECURSIVE RendersOfKind(_, _, _)
RendersOfKind(rs, kind, k) ==
  IF k = 0 THEN 0
  ELSE RendersOfKind(rs, kind, k - 1)
         + (IF rs[k].interaction.type = kind
            THEN rs[k].rendersTriggered.n ELSE 0)

\* C16: in every returned result, of one run or aggregated, rendersByType
\* has exactly the kinds of the interaction results, each with the sum of
\* rendersTriggered over the results of the kind, and totalRenders is the
\* sum of all rendersTriggered.
C16_RendersByTypeMatchesInteractions ==
  Resolved =>
    /\ DOMAIN settled.rendersByType = KindsOf(settled.interactionResults)
    /\ \A kind \in KindsOf(settled.interactionResults) :
         settled.rendersByType[kind] =
           Num(RendersOfKind(settled.interactionResults, kind,
                             Len(settled.interactionResults)))
    /\ \A i \in 1..Len(settled.interactionResults) :
         IsInteger(settled.interactionResults[i].rendersTriggered)
    /\ settled.totalRenders =
         sumOf([i \in 1..Len(settled.interactionResults) |->
                  settled.interactionResults[i].rendersTriggered])

\* two clicks that rendered in different runs: each rounds up to 1, so the
\* clicks count 2 renders although every run counted 1
C16_Witness ==
  /\ Aggregated
  /\ options.interactions = <<Click, Click>>
  /\ allResults[1].rendersByType["click"] = Num(1)
  /\ allResults[2].rendersByType["click"] = Num(1)
  /\ settled.rendersByType["click"] = Num(2)
  /\ settled.totalRenders = Num(2)

\* C17: no runs cannot be aggregated: aggregateResults([]) throws, so
\* measureInteraction with runs = 0 mounts nothing, runs nothing and ends
\* rejected with that error instead of a result.
C17_NoRunsIsAnError ==
  /\ IsError(aggregateResults(<<>>, now))
  /\ call = "measureInteraction" /\ options.runs = Num(0) =>
       /\ pc \in {"loop", "rejected"}
       /\ allResults = <<>> /\ mounted = 0
       /\ pc = "loop" => IsPending(settled)
       /\ pc = "rejected" => settled = Error("No results to aggregate")

\* the call with runs = 0 has ended
C17_Witness ==
  /\ call = "measureInteraction"
  /\ options.runs = Num(0)
  /\ options.interactions = <<Click, TypeHi>>
  /\ pc = "rejected"
  /\ IsError(settled)

\* the commits of the run that fell in the window w (see Window)
CommitsIn(w) == {j \in 1..Len(commitLog) : commitLog[j] = w}

\* the render time of the first k commits of the run that fell in w
RECURSIVE TimeIn(_, _)
TimeIn(w, k) ==
  IF k = 0 THEN Num(0)
  ELSE IF commitLog[k] = w
  THEN Add(TimeIn(w, k - 1), profiler.renders[k].actualDuration)
  ELSE TimeIn(w, k - 1)

\* C18: within a run, the rendersTriggered and totalRenderTime of each
\* interaction are the number and the render time of the commits made
\* between its own two snapshots; as each commit falls in one window, it is
\* counted by at most one interaction, and the commits of the mount and of
\* the gaps between interactions are counted by none.
C18_CommitsAreAttributedToTheirInteraction ==
  \A i \in 1..Len(interactionResults) :
    /\ interactionResults[i].rendersTriggered =
         Num(Cardinality(CommitsIn(i)))
    /\ interactionResults[i].totalRenderTime = TimeIn(i, Len(commitLog))

\* the mount committed, the first interaction caused a commit, another
\* followed in the gap, and the second interaction caused none
C18_Witness ==
  /\ call = "measureInteraction"
  /\ commitLog = <<0, 1, -1>>
  /\ Len(interactionResults) = 2
  /\ interactionResults[1].rendersTriggered = Num(1)
  /\ interactionResults[2].rendersTriggered = Num(0)
  /\ profiler.renderCount = Num(3)

\* no element of the document answers the selector
Unresolvable(selector) ==
  /\ selector \notin DOMAIN documentOf(profiler)
  /\ \/ selector \notin DOMAIN TestIdSelectors
     \/ TestIdSelectors[selector] \notin DOMAIN ElementsByTestId

\* C19: when the target of the interaction to perform cannot be resolved,
\* the step fails at once: no snapshot is taken, no event is fired, no
\* result is added, and the call is rejected with the error; nothing
\* happens after a rejection, so no later interaction runs and the call
\* yields no result, neither the partial run nor the earlier runs.
C19_UnresolvedTargetRejectsTheCall ==
  [][/\ pc = "perform" /\ Unresolvable(current.target) =>
          /\ pc' = "rejected"
          /\ settled' = Error("Element not found")
          /\ UNCHANGED <<tracker, fired, profiler, interactionResults,
                         allResults, index, run>>
     /\ pc # "rejected"]_vars

\* the panel is missing in the second run, after a complete first run and
\* a first interaction of the second
C19_Witness ==
  /\ call = "measureInteraction" /\ pc = "rejected"
  /\ settled = Error("Element not found")
  /\ options.interactions = <<Click, ClickPanel>>
  /\ Len(allResults) = 1
  /\ Len(interactionResults) = 1
  /\ Len(fired) = 3

\* C20: an interaction of a kind the engine does not know fails the call:
\* the step fires no event, leaves the render counter alone and rejects the
\* call; nothing happens after a rejection, so no result is returned.
C20_UnknownKindRejectsTheCall ==
  [][/\ /\ pc = "perform"
        /\ \A k \in 1..Len(InteractionTypes) :
             current.type # InteractionTypes[k]
        => /\ pc' = "rejected"
           /\ IsError(settled')
           /\ Unresolvable(current.target)
                \/ settled' = Error("Unknown interaction type")
           /\ UNCHANGED <<fired, profiler, elementValue,
                          interactionResults, allResults>>
     /\ pc # "rejected"]_vars

\* the unknown kind comes second: only the first interaction fired
C20_Witness ==
  /\ call = "measureInteraction" /\ pc = "rejected"
  /\ settled = Error("Unknown interaction type")
  /\ options.interactions = <<Click, Drag, Click>>
  /\ index = 2
  /\ Len(fired) = 1
  /\ Len(interactionResults) = 1

(***************************************************************************)
(* Properties of the profiler and of measureRendersWithProfiler            *)
(***************************************************************************)
\* the number of warm-up runs and of measured runs the call asks for
Warmups == warmupRunsOf(runOptions).n

Measurements == runsOf(runOptions).n

\* the events recorded during the k-th measured run, in order: the log
\* has one part before the first reset and one part per run
MeasuredLog(k) == runLog[1 + Warmups + k]

\* the events of the first k measured runs
RECURSIVE MeasuredLogs(_)
MeasuredLogs(k) ==
  IF k = 0 THEN <<>> ELSE MeasuredLogs(k - 1) \o MeasuredLog(k)

\* the sum of one duration over the first k events of a log
RECURSIVE DurationSum(_, _, _)
DurationSum(log, field, k) ==
  IF k = 0 THEN Num(0) ELSE Add(DurationSum(log, field, k - 1), log[k][field])

\* C21: warm-up runs are never aggregated. Every snapshot of allRuns holds
\* exactly the events recorded during its own measured run, so none of a
\* warm-up run or of an earlier measured run; when the call returns,
\* allRuns holds one snapshot per measured run, in order, and the
\* returned metrics are the totals over these snapshots.
C21_WarmupRunsAreNeverAggregated ==
  call = "measureRendersWithProfiler" =>
    /\ \A k \in 1..Len(allRuns) :
         /\ metricsAt(heap, allRuns[k]).renders = MeasuredLog(k)
         /\ metricsAt(heap, allRuns[k]).renderCount = Num(Len(MeasuredLog(k)))
    /\ pc = "resolved" =>
         /\ Len(allRuns) = Measurements
         /\ settled.allRuns = allRuns
         /\ settled.metrics.renders = MeasuredLogs(Measurements)
         /\ settled.metrics.renderCount = Num(Len(MeasuredLogs(Measurements)))
         /\ settled.metrics.totalActualDuration =
              DurationSum(settled.metrics.renders, "actualDuration",
                          Len(settled.metrics.renders))
         /\ settled.metrics.totalBaseDuration =
              DurationSum(settled.metrics.renders, "baseDuration",
                          Len(settled.metrics.renders))

\* one warm-up run that recorded a commit, then two measured runs of which
\* the second recorded one
C21_Witness ==
  /\ call = "measureRendersWithProfiler" /\ pc = "resolved"
  /\ Warmups = 1 /\ Measurements = 2
  /\ Len(runLog[2]) = 1
  /\ MeasuredLog(1) = <<>>
  /\ Len(MeasuredLog(2)) = 1
  /\ settled.metrics.renderCount = Num(1)

\* the events recorded since the last reset
SinceReset == runLog[Len(runLog)]

\* C22: whatever onRenderCallback and reset calls were made on a profiler,
\* its metrics describe the events recorded since the last reset:
\* renderCount is their number and the length of renders, the two totals
\* are the sums of their durations, averageRenderTime is
\* totalActualDuration / renderCount, and 0 when renderCount is 0; the
\* componentName is the one the profiler was created with.
C22_MetricsDescribeTheEventsSinceReset ==
  live # 0 =>
    /\ metricsAt(heap, live).renderCount = Num(Len(SinceReset))
    /\ Len(metricsAt(heap, live).renders) = Len(SinceReset)
    /\ metricsAt(heap, live).totalActualDuration =
         DurationSum(SinceReset, "actualDuration", Len(SinceReset))
    /\ metricsAt(heap, live).totalBaseDuration =
         DurationSum(SinceReset, "baseDuration", Len(SinceReset))
    /\ metricsAt(heap, live).averageRenderTime =
         IF Len(SinceReset) = 0 THEN Num(0)
         ELSE Div(metricsAt(heap, live).totalActualDuration,
                  metricsAt(heap, live).renderCount)
    /\ metricsAt(heap, live).componentName = componentName

\* a mount of 3 ms, a reset, and an update of half a millisecond
C22_Witness ==
  /\ call = "createProfiler"
  /\ Len(runLog) = 2
  /\ Len(runLog[1]) = 1
  /\ runLog[1][1].actualDuration = Num(3)
  /\ Len(SinceReset) = 1
  /\ metricsAt(heap, live).averageRenderTime = Rat(1, 2)

\* every snapshot getSnapshot has returned
Snapshots == taken \o allRuns

\* C23: a value returned by getSnapshot is independent of the live
\* profiler: no later step (an onRenderCallback, a reset, another
\* getSnapshot) changes any field of a snapshot already returned.
C23_SnapshotsNeverChange ==
  [][\A k \in 1..Len(Snapshots) :
       metricsAt(heap', Snapshots[k]) = metricsAt(heap, Snapshots[k])]_vars

\* a snapshot of one event, and a live profiler that has recorded a second
\* event since
C23_Witness ==
  /\ call = "createProfiler"
  /\ Len(taken) = 1
  /\ metricsAt(heap, taken[1]).renderCount = Num(1)
  /\ metricsAt(heap, live).renderCount = Num(2)
  /\ Len(runLog) = 1

(***************************************************************************)
(* Properties of the run loop of measureInteraction                        *)
(***************************************************************************)
\* the number of characters an interaction types
TypedLength(interaction) ==
  IF interaction.type = "type" /\ "text" \in DOMAIN interaction
  THEN Len(interaction.text)
  ELSE 0

\* C24 (as stated): between its two snapshots every interaction, of every
\* kind, suspends exactly once.
C24_ExactlyOneYieldPerInteraction ==
  call = "measureInteraction" /\ pc = "wait" => yields = 1

\* C24 (amended): between its two snapshots an interaction suspends once
\* after its events have been fired, and a 'type' interaction once more
\* after each character it types: n + 1 times for a text of n characters.
C24_OneYieldPerCharacterAndOneMore ==
  call = "measureInteraction" =>
    /\ pc = "wait" => yields = TypedLength(current) + 1
    /\ pc = "typing" => yields = chars /\ chars \in 1..TypedLength(current)

\* the last wait of a 'type' interaction of two characters
C24_Witness ==
  /\ call = "measureInteraction" /\ pc = "wait"
  /\ current = TypeHi
  /\ yields = 3
  /\ Len(fired) = 3

\* what holds of the runs and interactions at every moment of a call
SequentialRuns ==
  /\ pc = "perform" => Len(interactionResults) = index - 1
  /\ pc = "loop" =>
       /\ mounted = 0
       /\ Len(allResults) = run
       /\ \A k \in 1..Len(allResults) :
            Len(allResults[k].interactionResults) = Len(options.interactions)
  /\ pc = "mountWait" => mounted = 1 /\ Len(allResults) = run
  /\ ~IsNull(profiler) => profiler.renderCount = Num(Len(commitLog))
  /\ pc = "loop" /\ run > 0 =>
       /\ allResults[run].metrics.renderCount = Num(Len(commitLog))
       /\ allResults[run].totalRenders =
            Num(Cardinality({j \in 1..Len(commitLog) : commitLog[j] > 0}))

\* C25: runs and interactions execute strictly one after the other. An
\* interaction is started only when all interactions before it have their
\* results; a run is mounted only when the runs before it have performed
\* the whole script and nothing is mounted; the counter of a run counts
\* the commits of that run only, from zero, so the metrics and totals of a
\* run are those of its own commits, and the result of a finished run is
\* never touched again.
C25_RunsAndInteractionsAreSequential ==
  /\ [](call = "measureInteraction" => SequentialRuns)
  /\ [][\A k \in 1..Len(allResults) : allResults'[k] = allResults[k]]_vars

\* the second run has counted its mount and one commit, like the first
C25_Witness ==
  /\ call = "measureInteraction" /\ pc = "between"
  /\ run = 1 /\ Len(allResults) = 1
  /\ allResults[1].metrics.renderCount = Num(2)
  /\ allResults[1].totalRenders = Num(1)
  /\ profiler.renderCount = Num(2)
  /\ interactionResults[1].rendersTriggered = Num(1)

\* C26: in every InteractionResult of a returned result, of a single run
\* or aggregated, averageRenderTime is totalRenderTime / rendersTriggered,
\* and 0 when rendersTriggered is 0.
C26_AverageIsTimePerRender ==
  Resolved =>
    \A i \in 1..Len(settled.interactionResults) :
      settled.interactionResults[i].averageRenderTime =
        IF settled.interactionResults[i].rendersTriggered = Num(0)
        THEN Num(0)
        ELSE Div(settled.interactionResults[i].totalRenderTime,
                 settled.interactionResults[i].rendersTriggered)

\* C27: in every returned result, of a single run or aggregated, the
\* renders attributed to interactions do not exceed the renders counted
\* for the component: totalRenders <= metrics.renderCount.
C27_TotalRendersWithinRenderCount ==
  Resolved => Le(settled.totalRenders, settled.metrics.renderCount)

\* C28: every instance measureInteraction mounts is unmounted before the
\* call completes, with a result or with an error, and at no time is more
\* than one instance mounted.
C28_NothingStaysMounted ==
  call = "measureInteraction" =>
    /\ mounted <= 1
    /\ pc \in {"resolved", "rejected"} => mounted = 0

(***************************************************************************)
(* More properties of validateAgainstContract and of the cache of getConfig *)
(***************************************************************************)
\* the statuses of the checks the result reports
ReportedStatuses == {result.metrics[m].status : m \in DOMAIN result.metrics}

\* C29: for plain RenderMetrics (a measurement without interactionResults)
\* the per-interaction budgets are not checked: the result has no
\* rendersPerInteraction, its checks and violations are those of
\* renderTime and renderCount, its status is the worst of these checks,
\* and the whole result is the one obtained for the same contract without
\* any interaction budget.
C29_PlainMetricsSkipInteractionBudgets ==
  Returned("validateAgainstContract")
    /\ "interactionResults" \notin DOMAIN measurements =>
      /\ DOMAIN result.metrics \subseteq {"renderTime", "renderCount"}
      /\ \A i \in 1..Len(result.violations) :
           result.violations[i].metric \in {"renderTime", "renderCount"}
      /\ result.status =
           IF "fail" \in ReportedStatuses THEN "fail"
           ELSE IF "warn" \in ReportedStatuses THEN "warn"
           ELSE "pass"
      /\ result =
           validateAgainstContract(componentName, measurements,
                                   [contract EXCEPT !.interactions = <<>>])

\* plain metrics over the render-count budget, and a contract that also
\* declares a budget per click and per typing: one violation only
C29_Witness ==
  /\ Returned("validateAgainstContract")
  /\ "interactionResults" \notin DOMAIN measurements
  /\ DOMAIN contract.interactions = {"click", "type"}
  /\ contract.interactions["click"].maxRenders = Num(1)
  /\ contract.maxRenderCount = Num(2)
  /\ measurements.renderCount = Num(3)
  /\ result.status = "fail"
  /\ Len(result.violations) = 1

\* the cached configuration and the cached path fit together: no path
\* without a configuration, the defaults when a configuration is cached
\* without a path, and else the resolved content of a valid file found at
\* the path
CacheIsCoherent ==
  /\ IsNull(cachedConfig) => cachedConfigPath = NullPath
  /\ ~IsNull(cachedConfig) /\ cachedConfigPath = NullPath =>
       cachedConfig = resolveConfig(<<>>)
  /\ cachedConfigPath # NullPath =>
       \E file \in LoadResults \ {Null} :
         /\ file.filepath = cachedConfigPath
         /\ validateConfig(file.config) = <<>>
         /\ cachedConfig = resolveConfig(file.config)

\* a suspended call of getConfig ran to its end in the step
Settles == loading' < loading

\* C30: under any interleaving of getConfig and clearConfigCache calls the
\* cached configuration and the cached path change only together. A call
\* that fails (the load threw, or the file is invalid) leaves both as they
\* were; a call that succeeds caches what it returns, which is the
\* resolved file together with the path of that file, or the defaults
\* together with no path when no file was found; any other step leaves
\* both alone or empties both.
C30_ConfigAndPathChangeTogether ==
  /\ [](call = "getConfig" => CacheIsCoherent)
  /\ [][/\ Settles /\ IsError(returned') =>
             UNCHANGED <<cachedConfig, cachedConfigPath>>
        /\ Settles /\ ~IsError(returned') =>
             /\ cachedConfig' = returned'
             /\ IF IsNull(loaded')
                THEN /\ cachedConfig' = resolveConfig(<<>>)
                     /\ cachedConfigPath' = NullPath
                ELSE /\ cachedConfig' = resolveConfig(loaded'.config)
                     /\ cachedConfigPath' = loaded'.filepath
        /\ ~Settles =>
             \/ UNCHANGED <<cachedConfig, cachedConfigPath>>
             \/ IsNull(cachedConfig') /\ cachedConfigPath' = NullPath]_vars

\* two calls were suspended together; the first cached perf.contracts.ts,
\* the second found the file invalid and failed, leaving the cache alone
C30_Witness ==
  /\ call = "getConfig" /\ calls = 2 /\ loading = 0
  /\ cachedConfigPath = "perf.contracts.ts"
  /\ ~IsNull(cachedConfig)
  /\ returned = ConfigLoadError("perf.contracts.ts")
  /\ validateConfig(loaded.config) # <<>>

====
